---- MODULE Spec2Model ----
(***************************************************************************)
(* A model of the core of the Inko virtual machine (vm/src/vm/machine.rs): *)
(* the interpreter loop of Machine::run on the execution-context stack of  *)
(* each process, throw/unwind, deferred blocks, panics and the exit        *)
(* status, and the hand-over of processes between the workers of the       *)
(* process pools, the GC pool, the suspension list and the mailboxes.      *)
(*                                                                         *)
(* The bytecode a process runs is an input: Init draws the code unit of    *)
(* the main process from MainUnits and an integer literal from Inputs.     *)
(*                                                                         *)
(* The components around the interpreter are functions of their inputs and *)
(* have specifications of their own, which draw the inputs in their        *)
(* initial states: ConfigSpec for Config::from_env (vm/src/config.rs),      *)
(* ImportsSpec for DefineImportedTypes (compiler/src/type_check/imports.rs)*)
(* and MemorySpec for MemoryMap::stack (rt/src/memory_map.rs).             *)
(***************************************************************************)
EXTENDS Integers, Sequences, FiniteSets, TLC

VARIABLES
    input,        \* the integer literal the loaded program carries
    loaded,       \* the loaded program: name of a code unit -> the code unit
    module_registry, \* the module registry: the paths of the modules it parsed
    ctxs,         \* process -> its stack of execution contexts (root first)
    index,        \* process -> the local `index` of the run() that executes it
    reductions,   \* process -> the local `reductions` of that run()
    phase,        \* process -> position inside a multi-step instruction
    running,      \* worker -> the process it runs (0: none)
    queue,        \* pool -> process -> times the process sits in that pool's queue
    gcq,          \* process -> GC requests of the process waiting in the GC pool
    parked,       \* process -> how it is suspended ("no", "msg", "msgT", "sleep")
    waiting,      \* process -> its waiting-for-message flag
    mailbox,      \* process -> its mailbox, oldest message first
    gcYoung,      \* process -> "collect young generation" is due
    gcMailbox,    \* process -> "collect mailbox" is due
    poolId,       \* process -> the pool it is assigned to
    pinned,       \* process -> the worker it is pinned to (0: none)
    handler,      \* process -> its panic handler (Undef: none)
    defaultHandler, \* state.default_panic_handler (Undef: none)
    life,         \* process -> "unborn", "alive", "finished", "dead", "exited"
    exitStatus,   \* state.exit_status
    terminated,   \* the pools were told to terminate
    panics,       \* process -> number of panics it raised so far
    hist,         \* observations: what ran (never read by the program)
    last,         \* observation: the instruction executed last
    env,          \* the environment: variable name -> its raw value, if set
    config,       \* the Config that Config::from_env built from env
    db,           \* the type database: module -> name -> the symbol it names
    hir,          \* the modules being compiled, each with its imports
    diagnostics,  \* state.diagnostics
    pass,         \* observation: DefineImportedTypes ran, its result, its steps
    memory,       \* the MemoryMap that MemoryMap::stack built, and the mapped pages
    socket        \* a Socket, the network pollers and the threads that use it

\* The state of the virtual machine proper.
machine == <<input, loaded, module_registry, ctxs, index, reductions, phase, running, queue, gcq, parked,
             waiting, mailbox, gcYoung, gcMailbox, poolId, pinned, handler, defaultHandler,
             life, exitStatus, terminated, panics, hist, last>>

\* The state of the components around it, which no instruction touches.
outside == <<env, config, db, hir, diagnostics, pass, memory, socket>>

vars == <<machine, outside>>

-----------------------------------------------------------------------------
(* Bounds of the model. *)

\* config.reductions of the modelled run (DEFAULT_REDUCTIONS is 1000).
ReductionBudget == 1
\* A process may raise at most this many panics (handlers that panic again).
MaxPanics == 2
\* The input literal ranges over 0..MaxInput.
MaxInput == 3
\* A mailbox holding this many messages is due for a mailbox collection.
MailboxThreshold == 2

PRIMARY_POOL == 0
SECONDARY_POOL == 1

Inputs == 0..MaxInput
Procs == {1, 2, 3}
MainPid == CHOOSE p \in Procs : \A q \in Procs : p <= q
Workers == {1, 2, 3}
Pools == {PRIMARY_POOL, SECONDARY_POOL}
Regs == 0..3
Locals == 0..2

\* The pool a worker thread belongs to: workers 1 and 2 serve the primary pool,
\* worker 3 the secondary pool.
WorkerPool(w) == IF w = 3 THEN SECONDARY_POOL ELSE PRIMARY_POOL

-----------------------------------------------------------------------------
(* Object pointers: k is the kind, n an integer's value, m the binding a    *)
(* block captured, s a string's text or the name of a block's code unit.   *)

Val(k, n, m, s) == [k |-> k, n |-> n, m |-> m, s |-> s]
Undef == Val("undef", 0, 0, "")
Nil == Val("nil", 0, 0, "")
TrueV == Val("true", 0, 0, "")
FalseV == Val("false", 0, 0, "")
IntV(i) == Val("int", i, 0, "")
StrV(s) == Val("str", 0, 0, s)
BlkV(u, b) == Val("blk", 0, b, u)
\* An array: n is its length and m the sequence of its elements.
ArrV(pointers) == Val("arr", Len(pointers), pointers, "")

\* is_false!: false and nil are the two false values.
IsFalse(v) == v.k \in {"false", "nil"}

\* ObjectPointer::is_zero_integer
IsZeroInteger(v) == v.k = "int" /\ v.n = 0

DivZeroMessage == "Can not divide an Integer by 0"
UnknownPanicMessage == "The VM panicked with an unknown error"
RemZeroMessage == "attempt to calculate the remainder with a divisor of zero"
UncaughtThrowMessageWithoutPid(pid) == "A thrown value reached the top-level"

UncaughtThrowMessage(pid) ==
    "A thrown value reached the top-level in process " \o ToString(pid)

\* The widths of the unsigned integers of the program.
U16 == 16
U8 == 8

\* The error of MoveToPool for a pool id that no pool has.
InvalidPoolMessageWithoutId(pool_id) == "The process pool ID is invalid"

InvalidPoolMessage(pool_id) ==
    "The process pool ID " \o ToString(pool_id) \o " is invalid"

\* ObjectPointer::u8_value: an integer object that fits eight bits.
IsU8(ptr) == ptr.k = "int" /\ ptr.n \in 0..(2^U8 - 1)

\* The message of Machine::validate_number_of_arguments.
ArityMessage(name, label, arguments) ==
    name \o " takes " \o label \o " arguments but " \o ToString(arguments)
         \o " were supplied"

-----------------------------------------------------------------------------
(* Compiled code.  An instruction is its type and its argument list        *)
(* (instruction.arg(i) is a[i + 1]); a code unit carries its instructions, *)
(* catch table, literals, child code units and argument metadata.          *)

Ins(op, a) == [op |-> op, a |-> a]
CatchEntry(s, e, j, r) == [start |-> s, end |-> e, jump_to |-> j, register |-> r]
Code(name, instrs, catch, lits, children, req, opt, rest, captures) ==
    [name |-> name, instrs |-> instrs, catch_table |-> catch, lits |-> lits,
     children |-> children, required |-> req, optional |-> opt, rest |-> rest,
     captures |-> captures]

Odd == input % 2 = 1

\* Code units that are called, deferred, spawned or registered as handlers.
URetLit == "URetLit"
URetNone == "URetNone"
UDeferFn == "UDeferFn"
UD1 == "UD1"
UD2 == "UD2"
UDeferring == "UDeferring"
UThrowing == "UThrowing"
UThrower == "UThrower"
UTail == "UTail"
UMethod == "UMethod"
URunner == "URunner"
UClosure == "UClosure"
USenderA == "USenderA"
USenderB == "USenderB"
UHandler == "UHandler"
UExitChild == "UExitChild"
UPanicChild == "UPanicChild"
UBadTail == "UBadTail"
UPanicking == "UPanicking"
UExiting == "UExiting"
UPinChild == "UPinChild"
URest == "URest"
ULoader == "ULoader"
UModA == "UModA"
UModB == "UModB"

\* Code units of the main process, one per scenario.
MDiv == "MDiv"
MMod == "MMod"
MCall == "MCall"
MDefer == "MDefer"
MThrow == "MThrow"
MTail == "MTail"
MBlockRet == "MBlockRet"
MMsg == "MMsg"
MSched == "MSched"
MPanic == "MPanic"
MExit == "MExit"
MRace == "MRace"
MChild == "MChild"
MArity == "MArity"
MHandled == "MHandled"
MExiting == "MExiting"
MPinned == "MPinned"
MArgs == "MArgs"
MLoad == "MLoad"

MainUnits == {MDiv, MMod, MCall, MDefer, MThrow, MTail, MBlockRet, MMsg, MSched,
              MPanic, MExit, MRace, MChild, MArity, MHandled, MExiting,
              MPinned, MArgs, MLoad}

ArithCode(name, op) ==
    Code(name,
         << Ins("SetLiteral", <<0, 0>>), Ins("SetLiteral", <<1, 1>>),
            Ins(op, <<2, 0, 1>>), Ins("Return", <<0, 2>>), Ins("Return", <<0, 2>>) >>,
         << CatchEntry(2, 3, 4, 2) >>, << IntV(10), IntV(input \div 2) >>, << >>,
         0, 0, FALSE, FALSE)

CompiledCode(u) ==
    CASE u = MDiv -> ArithCode("div", "IntegerDiv")
      [] u = MMod -> ArithCode("mod", "IntegerMod")
      [] u = MCall ->
           Code("call",
                << Ins("SetBlock", <<0, input % 2>>), Ins("SetLiteral", <<1, 0>>),
                   Ins("RunBlock", <<1, 0, 0, 0>>), Ins("Return", <<0, 1>>) >>,
                << >>, << TrueV >>, << URetLit, URetNone >>, 0, 0, FALSE, FALSE)
      [] u = MDefer ->
           Code("defer",
                << Ins("SetBlock", <<0, 0>>), Ins("RunBlock", <<1, 0, 0, 0>>),
                   Ins("Return", <<0, 1>>) >>,
                << >>, << >>, << UDeferring >>, 0, 0, FALSE, FALSE)
      [] u = MThrow ->
           Code("throw",
                (IF input % 4 = 3
                 THEN << Ins("SetBlock", <<0, 1>>),
                         Ins("ProcessAddDeferToCaller", <<1, 0>>) >>
                 ELSE << >>) \o
                << Ins("SetBlock", <<0, 0>>), Ins("RunBlock", <<1, 0, 0, 0>>),
                   Ins("Return", <<0, 1>>), Ins("Return", <<0, 2>>) >>,
                IF Odd THEN << >> ELSE << CatchEntry(1, 2, 3, 2) >>,
                << >>, << UThrowing, URetNone >>, 0, 0, FALSE, FALSE)
      [] u = MTail ->
           Code("tail",
                << Ins("SetBlock", <<0, 0>>), Ins("SetLiteral", <<1, 0>>),
                   Ins("RunBlock", <<2, 0, 1, 0, 1>>), Ins("Return", <<0, 2>>) >>,
                << >>, << TrueV >>, << UTail >>, 0, 0, FALSE, FALSE)
      [] u = MBlockRet ->
           Code("blockret",
                << Ins("SetBlock", <<0, 0>>), Ins("RunBlock", <<1, 0, 0, 0>>),
                   Ins("Return", <<0, 1>>) >>,
                << >>, << >>, << UMethod >>, 0, 0, FALSE, FALSE)
      [] u = MMsg ->
           Code("msg",
                << Ins("SetBlock", <<0, 0>>), Ins("SetLiteral", <<1, 0>>),
                   Ins("ProcessSpawn", <<2, 0, 1>>), Ins("SetBlock", <<0, 1>>),
                   Ins("ProcessSpawn", <<2, 0, 1>>), Ins("SetLiteral", <<3, 1>>),
                   Ins("ProcessReceiveMessage", <<0, 3>>),
                   Ins("ProcessReceiveMessage", <<1, 3>>),
                   Ins("ProcessReceiveMessage", <<2, 3>>),
                   Ins("SetObject", <<3, 0>>), Ins("SetBlock", <<3, 2>>), Ins("RunBlock", <<3, 3, 0, 0>>),
                   Ins("Return", <<0, 0>>) >>,
                << >>,
                << IntV(PRIMARY_POOL),
                   CASE input = 1 -> IntV(1) [] input = 3 -> IntV(0) [] OTHER -> Nil >>,
                << USenderA, USenderB, URetNone >>, 0, 0, FALSE, FALSE)
      [] u = MSched ->
           Code("sched",
                << Ins("SetLiteral", <<0, 0>>), Ins("MoveToPool", <<1, 0>>),
                   Ins("SetLiteral", <<2, 1>>), Ins("ProcessSuspendCurrent", <<2>>),
                   Ins("ProcessPinThread", <<1>>), Ins("SetLiteral", <<0, 2>>),
                   Ins("MoveToPool", <<1, 0>>), Ins("ProcessUnpinThread", <<1>>),
                   Ins("SetObject", <<3, 0>>), Ins("SetBlock", <<0, 0>>),
                   Ins("RunBlock", <<1, 0, 0, 0>>), Ins("MoveToPool", <<1, 2>>),
                   Ins("SetLiteral", <<0, 3>>), Ins("MoveToPool", <<1, 0>>),
                   Ins("Return", <<0, 1>>) >>,
                << >>,
                << IntV(SECONDARY_POOL), IF Odd THEN IntV(1) ELSE Nil,
                   IntV(PRIMARY_POOL),
                   IF input % 4 = 3 THEN IntV(2^U8 + 7) ELSE IntV(7) >>,
                << URetLit >>, 0, 0, FALSE, FALSE)
      [] u = MPanic ->
           Code("panic",
                << Ins("SetBlock", <<0, IF input % 4 = 3 THEN 1 ELSE 0>>),
                   Ins(CASE input % 4 = 0 -> "SetRegister"
                         [] input % 4 = 2 -> "SetDefaultPanicHandler"
                         [] OTHER -> "ProcessSetPanicHandler", <<1, 0>>),
                   Ins("SetLiteral", <<0, 0>>), Ins("Panic", <<0>>),
                   Ins("Return", <<0>>) >>,
                << >>, << StrV("boom") >>, << UHandler, UThrower >>, 0, 0, FALSE, FALSE)
      [] u = MExit ->
           Code("exit",
                << Ins("SetBlock", <<0, 0>>), Ins("SetBlock", <<1, 1>>),
                   Ins("RunBlock", <<2, 1, 1, 0, 0>>), Ins("SetLiteral", <<0, 0>>),
                   Ins("Exit", <<0>>), Ins("Return", <<0>>) >>,
                << >>, << IntV(input) >>, << UD1, UDeferFn >>, 0, 0, FALSE, FALSE)
      [] u = MRace ->
           Code("race",
                << Ins("SetBlock", <<0, 0>>), Ins("SetLiteral", <<1, 0>>),
                   Ins("ProcessSpawn", <<2, 0, 1>>), Ins("SetLiteral", <<0, 1>>),
                   Ins(IF Odd THEN "Panic" ELSE "ProcessTerminateCurrent", <<0>>),
                   Ins("Return", <<0>>) >>,
                << >>, << IntV(PRIMARY_POOL), StrV("boom") >>, << UExitChild >>,
                0, 0, FALSE, FALSE)
      [] u = MChild ->
           Code("child",
                << Ins("SetBlock", <<0, 0>>),
                   Ins(IF Odd THEN "SetDefaultPanicHandler" ELSE "SetRegister", <<1, 0>>),
                   Ins("SetBlock", <<0, 1>>), Ins("SetLiteral", <<1, 0>>),
                   Ins("ProcessSpawn", <<2, 0, 1>>), Ins("SetLiteral", <<3, 1>>),
                   Ins("SetRegister", <<1, 3>>), Ins("Return", <<0>>) >>,
                << >>, << IntV(PRIMARY_POOL), Nil >>, << UHandler, UPanicChild >>,
                0, 0, FALSE, FALSE)
      [] u = MArity ->
           Code("arity",
                << Ins("SetBlock", <<0, input % 4>>), Ins("SetLiteral", <<1, 0>>),
                   Ins("SetLiteral", <<3, 1>>),
                   CASE input % 4 = 0 -> Ins("RunBlock", <<2, 0, 2, 0, 1, 1>>)
                     [] input % 4 = 1 -> Ins("RunBlockWithReceiver", <<2, 0, 1, 0, 0>>)
                     [] input % 4 = 2 ->
                          Ins("RunBlockWithReceiver", <<2, 0, 1, 1, 1, 1, 3, 1>>)
                     [] OTHER -> Ins("RunBlock", <<2, 0, 1, 0, 1>>),
                   Ins("Return", <<0, 2>>) >>,
                << >>, << TrueV, StrV("acc") >>,
                << UDeferFn, UDeferFn, UTail, UBadTail >>, 0, 0, FALSE, FALSE)
      [] u = MHandled ->
           Code("handled",
                << Ins("SetBlock", <<0, 0>>),
                   Ins(IF input % 4 = 1 THEN "SetDefaultPanicHandler"
                       ELSE "ProcessSetPanicHandler", <<1, 0>>),
                   Ins("SetBlock", <<0, 1>>), Ins("ProcessAddDeferToCaller", <<1, 0>>),
                   Ins("SetBlock", <<0, 2>>), Ins("RunBlock", <<1, 0, 0, 0>>),
                   Ins("Return", <<0, 1>>), Ins("Return", <<0, 2>>) >>,
                IF input % 4 = 3 THEN << CatchEntry(5, 6, 7, 2) >> ELSE << >>,
                << >>, << UHandler, UD2, UPanicking >>, 0, 0, FALSE, FALSE)
      [] u = UPanicking ->
           Code("panicking",
                << Ins("SetBlock", <<0, 0>>), Ins("SetBlock", <<1, 1>>),
                   Ins("RunBlock", <<2, 1, 1, 0, 0>>), Ins("SetLiteral", <<0, 0>>),
                   Ins("Panic", <<0>>), Ins("Return", <<0>>) >>,
                << >>, << StrV("boom") >>, << UD1, UDeferFn >>, 0, 0, FALSE, FALSE)
      [] u = MExiting ->
           Code("exiting",
                << Ins("SetBlock", <<0, 0>>), Ins("ProcessAddDeferToCaller", <<1, 0>>),
                   Ins("SetBlock", <<0, 1>>), Ins("RunBlock", <<1, 0, 0, 0>>),
                   Ins("Return", <<0, 1>>), Ins("Return", <<0, 2>>) >>,
                IF input % 4 = 3 THEN << CatchEntry(3, 4, 5, 2) >> ELSE << >>,
                << >>, << UD2, UExiting >>, 0, 0, FALSE, FALSE)
      [] u = UExiting ->
           Code("exits",
                << Ins("SetBlock", <<0, 0>>), Ins("SetBlock", <<1, 1>>),
                   Ins("RunBlock", <<2, 1, 1, 0, 0>>), Ins("SetLiteral", <<0, 0>>),
                   Ins("Exit", <<0>>), Ins("Return", <<0>>) >>,
                << >>, << IntV(3) >>, << UD1, UDeferFn >>, 0, 0, FALSE, FALSE)
      [] u = MPinned ->
           Code("pinned",
                << Ins("SetBlock", <<0, 0>>), Ins("SetLiteral", <<1, 0>>),
                   Ins("ProcessSpawn", <<2, 0, 1>>), Ins("ProcessPinThread", <<3>>),
                   Ins("SetLiteral", <<1, 0>>),
                   Ins(IF input % 4 >= 2 THEN "ProcessTerminateCurrent" ELSE "Return",
                       <<0>>) >>,
                << >>, << IntV(PRIMARY_POOL) >>, << UPinChild >>, 0, 0, FALSE, FALSE)
      [] u = MArgs ->
           Code("args",
                << Ins("SetBlock", <<0, 0>>), Ins("SetLiteral", <<1, 0>>),
                   Ins("SetLiteral", <<2, 1>>), Ins("SetLiteral", <<3, 2>>),
                   CASE input % 4 = 0 -> Ins("RunBlock", <<0, 0, 4, 0, 1, 2, 2, 1>>)
                     [] input % 4 = 1 -> Ins("RunBlock", <<0, 0, 2, 1, 1, 2, 3, 1>>)
                     [] input % 4 = 2 ->
                          Ins("RunBlockWithReceiver", <<0, 0, 1, 1, 2, 2, 3, 1, 3, 2>>)
                     [] OTHER -> Ins("RunBlock", <<0, 0, 3, 1, 1, 2, 1, 3, 2>>),
                   Ins("Return", <<0, 0>>) >>,
                << >>,
                << IntV(10), IntV(20),
                   CASE input % 4 = 1 -> StrV("b") [] input % 4 = 2 -> StrV("zz")
                     [] OTHER -> StrV("a") >>,
                << URest >>, 0, 0, FALSE, FALSE)
      [] u = URest ->
           Code("rest",
                << Ins("GetLocal", <<1, 2>>), Ins("GetLocal", <<0, 0>>),
                   Ins("Return", <<0, 0>>) >>,
                << >>, << >>, << >>, 1, 1, TRUE, FALSE)
      [] u = MLoad ->
           Code("load",
                << Ins("SetBlock", <<0, 0>>), Ins("SetLiteral", <<1, 0>>),
                   Ins("ProcessSpawn", <<2, 0, 1>>), Ins("SetLiteral", <<1, 1>>),
                   Ins("LoadModule", <<0, 1>>), Ins("SetLiteral", <<1, 2>>),
                   Ins("LoadModule", <<3, 1>>), Ins("Return", <<0, 3>>) >>,
                << >>,
                << IntV(PRIMARY_POOL), StrV("a"),
                   CASE input % 4 = 0 -> StrV("a") [] input % 4 = 1 -> StrV("b")
                     [] input % 4 = 2 -> StrV("zz") [] OTHER -> IntV(1) >>,
                << ULoader >>, 0, 0, FALSE, FALSE)
      [] u = ULoader ->
           Code("loader",
                << Ins("SetLiteral", <<1, 0>>), Ins("LoadModule", <<0, 1>>),
                   Ins("Return", <<0, 0>>) >>,
                << >>, << StrV("a") >>, << >>, 0, 0, FALSE, FALSE)
      [] u = UModA ->
           Code("a",
                << Ins("SetLiteral", <<1, 0>>), Ins("LoadModule", <<0, 1>>),
                   Ins("SetLiteral", <<0, 1>>), Ins("Return", <<0, 0>>) >>,
                << >>, << StrV("a"), IntV(1) >>, << >>, 0, 0, FALSE, FALSE)
      [] u = UModB ->
           Code("b",
                << Ins("SetLiteral", <<0, 0>>), Ins("Return", <<0, 0>>) >>,
                << >>, << IntV(2) >>, << >>, 0, 0, FALSE, FALSE)
      [] u = UPinChild ->
           Code("pinchild",
                << Ins("ProcessPinThread", <<0>>),
                   Ins(IF Odd THEN "ProcessTerminateCurrent" ELSE "Return", <<0>>) >>,
                << >>, << >>, << >>, 0, 0, FALSE, FALSE)
      [] u = UBadTail ->
           Code("badtail",
                << Ins("GetLocal", <<0, 0>>), Ins("SetLiteral", <<2, 0>>),
                   Ins("TailCall", <<1, 1, 0, 2, 0>>), Ins("Return", <<0, 0>>) >>,
                << >>, << StrV("n") >>, << >>, 1, 0, FALSE, FALSE)
      [] u = UPanicChild ->
           Code("panicchild",
                << Ins("SetBlock", <<0, 0>>),
                   Ins(IF input >= 2 THEN "ProcessSetPanicHandler" ELSE "SetRegister",
                       <<1, 0>>),
                   Ins("SetLiteral", <<0, 0>>), Ins("Panic", <<0>>),
                   Ins("Return", <<0>>) >>,
                << >>, << StrV("boom") >>, << UHandler >>, 0, 0, FALSE, FALSE)
      [] u = URetLit ->
           Code("retlit", << Ins("SetLiteral", <<0, 0>>), Ins("Return", <<0, 0>>) >>,
                << >>, << IntV(input) >>, << >>, 0, 0, FALSE, FALSE)
      [] u = URetNone ->
           Code("retnone", << Ins("Return", <<0>>) >>,
                << >>, << >>, << >>, 0, 0, FALSE, FALSE)
      [] u = UDeferFn ->
           Code("deferfn",
                << Ins("GetLocal", <<0, 0>>), Ins("ProcessAddDeferToCaller", <<1, 0>>),
                   Ins("Return", <<0, 1>>) >>,
                << >>, << >>, << >>, 1, 0, FALSE, FALSE)
      [] u = UD1 ->
           Code("d1", << Ins("SetLiteral", <<0, 0>>), Ins("Return", <<0, 0>>) >>,
                << >>, << IntV(1) >>, << >>, 0, 0, FALSE, FALSE)
      [] u = UD2 ->
           Code("d2",
                << Ins("SetLiteral", <<0, 0>>), Ins("GotoIfFalse", <<3, 0>>),
                   Ins("Throw", <<0>>), Ins("Return", <<0, 0>>) >>,
                << >>, << IF input >= 2 THEN TrueV ELSE FalseV >>, << >>,
                0, 0, FALSE, FALSE)
      [] u = UDeferring ->
           Code("deferring",
                << Ins("SetBlock", <<0, 0>>), Ins("SetBlock", <<1, 1>>),
                   Ins("RunBlock", <<2, 1, 1, 0, 0>>), Ins("SetBlock", <<0, 2>>),
                   Ins("RunBlock", <<2, 1, 1, 0, 0>>), Ins("SetLiteral", <<3, 0>>),
                   Ins("Return", <<0, 3>>), Ins("Return", <<0, 3>>) >>,
                << CatchEntry(5, 6, 7, 3) >>, << IntV(5) >>, << UD1, UDeferFn, UD2 >>,
                0, 0, FALSE, FALSE)
      [] u = UThrowing ->
           Code("throwing",
                << Ins("SetBlock", <<0, 0>>), Ins("SetBlock", <<1, 1>>),
                   Ins("RunBlock", <<2, 1, 1, 0, 0>>), Ins("SetBlock", <<0, 2>>),
                   Ins("RunBlock", <<2, 0, 0, 0>>), Ins("Return", <<0, 2>>),
                   Ins("Return", <<0, 1>>) >>,
                IF input % 4 = 2
                THEN << CatchEntry(5, 6, 6, 1), CatchEntry(3, 5, 5, 2),
                        CatchEntry(4, 5, 6, 1) >>
                ELSE << >>,
                << >>, << UD1, UDeferFn, UThrower >>, 0, 0, FALSE, FALSE)
      [] u = UThrower ->
           Code("thrower",
                << Ins("SetLiteral", <<0, 0>>), Ins("Throw", <<0>>),
                   Ins("Return", <<0>>) >>,
                << >>, << StrV("oops") >>, << >>, 0, 1, FALSE, FALSE)
      [] u = UTail ->
           Code("tailrec",
                << Ins("GetLocal", <<0, 0>>), Ins("SetLocal", <<1, 0>>),
                   Ins("GotoIfFalse", <<5, 0>>), Ins("SetLiteral", <<1, 0>>),
                   Ins("TailCall", <<1, 0, 1>>), Ins("Return", <<0, 0>>) >>,
                << >>, << FalseV >>, << >>, 1, 1, FALSE, FALSE)
      [] u = UMethod ->
           Code("method",
                << Ins("SetBlock", <<0, 0>>), Ins("SetBlock", <<1, 1>>),
                   Ins("RunBlock", <<2, 1, 1, 0, 0>>), Ins("SetLiteral", <<3, 0>>),
                   Ins("Return", <<0, 3>>) >>,
                << >>, << IntV(3) >>, << UClosure, URunner >>, 0, 0, FALSE, FALSE)
      [] u = URunner ->
           Code("runner",
                << Ins("GetLocal", <<0, 0>>), Ins("RunBlock", <<1, 0, 0, 0>>),
                   Ins("Return", <<0, 1>>) >>,
                << >>, << >>, << >>, 1, 0, FALSE, FALSE)
      [] u = UClosure ->
           Code("closure",
                << Ins("SetLiteral", <<0, 0>>), Ins("Return", <<input % 2, 0>>) >>,
                << >>, << IntV(7) >>, << >>, 0, 0, FALSE, TRUE)
      [] u = USenderA ->
           Code("senderA",
                << Ins("SetLiteral", <<0, 0>>), Ins("SetLiteral", <<1, 1>>),
                   Ins("ProcessSendMessage", <<2, 0, 1>>), Ins("SetLiteral", <<1, 2>>),
                   Ins("ProcessSendMessage", <<2, 0, 1>>), Ins("Return", <<0>>) >>,
                << >>, << IntV(MainPid), IntV(11), IntV(12) >>, << >>,
                0, 0, FALSE, FALSE)
      [] u = USenderB ->
           Code("senderB",
                << Ins("SetLiteral", <<0, 0>>), Ins("SetLiteral", <<1, 1>>),
                   Ins("ProcessSendMessage", <<2, 0, 1>>), Ins("Return", <<0>>) >>,
                << >>, << IntV(MainPid), IntV(21) >>, << >>, 0, 0, FALSE, FALSE)
      [] u = UHandler ->
           Code("handler",
                << Ins("GetLocal", <<0, 0>>), Ins("Return", <<0, 0>>) >>,
                << >>, << >>, << >>, 1, 0, FALSE, FALSE)
      [] OTHER ->
           Code("exitchild",
                << Ins("SetLiteral", <<0, 0>>), Ins("Exit", <<0>>),
                   Ins("Return", <<0>>) >>,
                << >>, << IntV(input \div 2) >>, << >>, 0, 0, FALSE, FALSE)

CalledUnits == {URetLit, URetNone, UDeferFn, UD1, UD2, UDeferring, UThrowing,
                UThrower, UTail, UMethod, URunner, UClosure, USenderA, USenderB,
                UHandler, UExitChild, UPanicChild, UBadTail, UPanicking,
                UExiting, UPinChild, URest, ULoader, UModA, UModB}

\* The code unit named u of the loaded program.
Unit(u) == loaded[u]

-----------------------------------------------------------------------------
(* Execution contexts and the process's context stack (root first, the     *)
(* current context last).                                                  *)

\* ExecutionContext::from_block: a fresh context for a block.  top_binding is
\* the stack position of the method context whose binding is the root of this
\* context's binding chain; resume, deferred_of and owed only observe (the
\* index the parent resumes at, the position of the context whose deferred
\* block this context runs, and how many deferred blocks registered with this
\* context have not run to their Return yet).
NewContext(unit, ret, tb, resume, dof) ==
    [code |-> unit, instruction_index |-> 0,
     register |-> [r \in Regs |-> Undef], locals |-> [l \in Locals |-> Undef],
     return_register |-> ret, deferred_blocks |-> << >>,
     terminate_upon_return |-> FALSE, top_binding |-> tb, receiver |-> Undef,
     resume |-> resume, deferred_of |-> dof, owed |-> 0]

Top(stack) == stack[Len(stack)]

\* The binding a block called at stack position pos runs in: the one it
\* captured, or a new root binding.
BindingOf(blk, pos) == IF blk.m # 0 THEN blk.m ELSE pos

\* Process::pop_context: drops the current context unless it is the root;
\* root tells whether it was.
PopContext(stack) ==
    [stack |-> IF Len(stack) > 1 THEN SubSeq(stack, 1, Len(stack) - 1) ELSE stack,
     root |-> Len(stack) = 1]

\* reset_context!: the index the loop continues at.
ResetContext(stack) == Top(stack).instruction_index

\* remember_and_reset!: the context at pos (the one the loop holds) is rewound
\* to the instruction just executed, and the loop moves to the current context.
RememberAndResetNotRewinding(stack, pos, idx) ==
    LET s1 == [stack EXCEPT ![pos].instruction_index = idx]
    IN  [stack |-> s1, idx |-> ResetContext(s1)]

RememberAndReset(stack, pos, idx) ==
    LET s1 == [stack EXCEPT ![pos].instruction_index = idx - 1]
    IN  [stack |-> s1, idx |-> ResetContext(s1)]

\* enter_context!: the context at pos stores the index of its next instruction,
\* and the loop moves to the current context.
EnterContext(stack, pos, idx) ==
    LET s1 == [stack EXCEPT ![pos].instruction_index = idx]
    IN  [stack |-> s1, idx |-> ResetContext(s1)]

\* The contexts of the blocks in `blocks`, pushed in order on `stack`, each
\* with no return register.  (When the context pushed first returns, the
\* instruction at `resume` of the context below it is next; when a later one
\* returns, the first instruction of the block pushed before it.)
RECURSIVE PushBlocks(_, _, _, _)
PushBlocks(stack, blocks, resume, dof) ==
    IF blocks = << >> THEN stack
    ELSE PushBlocks(
             Append(stack,
                    NewContext(Head(blocks).s, -1,
                               BindingOf(Head(blocks), Len(stack) + 1), resume, dof)),
             Tail(blocks), 0, dof)

\* ExecutionContext::schedule_deferred_blocks for the context at pos: its
\* deferred blocks are drained and pushed as calls on top of the stack.
ScheduleDeferredBlocks(stack, pos, resume) ==
    [stack |-> PushBlocks([stack EXCEPT ![pos].deferred_blocks = << >>],
                          stack[pos].deferred_blocks, resume, pos),
     any |-> stack[pos].deferred_blocks # << >>]

\* ExecutionContext::schedule_deferred_blocks_of_all_parents for the current
\* context: the same for it and for every context below it.
RECURSIVE ScheduleFrom(_, _, _)
ScheduleFrom(stack, pos, resume) ==
    IF pos = 0 THEN stack
    ELSE ScheduleFrom(ScheduleDeferredBlocks(stack, pos, resume).stack, pos - 1,
                      IF stack[pos].deferred_blocks # << >> THEN 0 ELSE resume)

ScheduleDeferredBlocksOfAllParents(stack, resume) ==
    [stack |-> ScheduleFrom(stack, Len(stack), resume),
     any |-> \E i \in 1..Len(stack) : stack[i].deferred_blocks # << >>]

\* process::unwind_until_defining_scope: pops contexts until the current one
\* is the context whose binding is the top binding of the returning block.
UnwindUntilDefiningScope(stack) ==
    LET tb == Top(stack).top_binding
    IN  IF tb \in 1..Len(stack) THEN SubSeq(stack, 1, tb) ELSE stack

\* The last catch table entry, in table order, that covers idx (0: none).
LastMatch(entries, idx) ==
    LET hits == {i \in 1..Len(entries) :
                     entries[i].start < idx /\ entries[i].end >= idx}
    IN  IF hits = {} THEN 0 ELSE CHOOSE i \in hits : \A j \in hits : j <= i

\* The first catch table entry, in table order, that covers idx (0: none).
FirstMatch(entries, idx) ==
    LET hits == {i \in 1..Len(entries) :
                     entries[i].start < idx /\ entries[i].end >= idx}
    IN  IF hits = {} THEN 0 ELSE CHOOSE i \in hits : \A j \in hits : i <= j

\* The loop of Machine::throw, with the deferred blocks carried so far.
RECURSIVE ThrowLoopDroppingDeferred(_, _, _)
ThrowLoopDroppingDeferred(stack, deferred, value) ==
    LET context == Top(stack)
        entries == Unit(context.code).catch_table
        hit == FirstMatch(entries, context.instruction_index)
    IN  IF hit # 0
        THEN [ok |-> TRUE,
              stack |-> [stack EXCEPT
                  ![Len(stack)].instruction_index = entries[hit].jump_to,
                  ![Len(stack)].register[entries[hit].register] = value]]
        ELSE IF Len(stack) = 1
        THEN [ok |-> FALSE, stack |-> stack]
        ELSE ThrowLoopDroppingDeferred(SubSeq(stack, 1, Len(stack) - 1), << >>, value)

RECURSIVE ThrowLoopOverwritingRoot(_, _, _)
ThrowLoopOverwritingRoot(stack, deferred, value) ==
    LET context == Top(stack)
        entries == Unit(context.code).catch_table
        hit == FirstMatch(entries, context.instruction_index)
    IN  IF hit # 0
        THEN [ok |-> TRUE,
              stack |-> [stack EXCEPT
                  ![Len(stack)].instruction_index = entries[hit].jump_to,
                  ![Len(stack)].register[entries[hit].register] = value,
                  ![Len(stack)].deferred_blocks = @ \o deferred,
                  ![Len(stack)].owed = @ + Len(deferred)]]
        ELSE IF Len(stack) = 1
        THEN [ok |-> FALSE,
              stack |-> [stack EXCEPT ![1].deferred_blocks = deferred,
                                      ![1].owed = Len(deferred)]]
        ELSE ThrowLoopOverwritingRoot(SubSeq(stack, 1, Len(stack) - 1),
                                      deferred \o context.deferred_blocks, value)

RECURSIVE ThrowLoop(_, _, _)
ThrowLoop(stack, deferred, value) ==
    LET context == Top(stack)
        entries == Unit(context.code).catch_table
        hit == FirstMatch(entries, context.instruction_index)
    IN  IF hit # 0
        THEN [ok |-> TRUE,
              stack |-> [stack EXCEPT
                  ![Len(stack)].instruction_index = entries[hit].jump_to,
                  ![Len(stack)].register[entries[hit].register] = value,
                  ![Len(stack)].deferred_blocks = @ \o deferred,
                  ![Len(stack)].owed = @ + Len(deferred)]]
        ELSE IF Len(stack) = 1
        THEN [ok |-> FALSE,
              stack |-> [stack EXCEPT ![1].deferred_blocks = @ \o deferred,
                                      ![1].owed = @ + Len(deferred)]]
        ELSE ThrowLoop(SubSeq(stack, 1, Len(stack) - 1),
                       deferred \o context.deferred_blocks, value)

\* Machine::throw
Throw(stack, value) == ThrowLoop(stack, << >>, value)

\* The context c of a deferred block has run and left the stack: the context
\* it was deferred by is owed one block less.
Settle(stack, c) ==
    IF c.deferred_of \in 1..Len(stack)
    THEN [stack EXCEPT ![c.deferred_of].owed = @ - 1]
    ELSE stack

\* throw_value!: the current context stores idx, the value is thrown, and the
\* loop moves to the context that caught it.
ThrowValue(stack, value, idx) ==
    LET r == Throw([stack EXCEPT ![Len(stack)].instruction_index = idx], value)
    IN  [ok |-> r.ok,
         stack |-> IF Len(r.stack) < Len(stack) THEN Settle(r.stack, Top(stack))
                   ELSE r.stack,
         idx |-> ResetContext(r.stack)]

-----------------------------------------------------------------------------
(* Calls: argument validation and packing.                                 *)

\* CompiledCode::argument_position: the local a keyword argument names
\* (-1: the code unit has no such argument).
ArgumentPosition(unit, key) ==
    IF unit = UTail /\ key = StrV("n") THEN 0
    ELSE IF unit = UTail /\ key = StrV("acc") THEN 1
    ELSE IF unit = URest /\ key = StrV("a") THEN 0
    ELSE IF unit = URest /\ key = StrV("b") THEN 1
    ELSE -1

\* CompiledCode::valid_number_of_arguments
ValidNumberOfArguments(unit, arguments) ==
    LET code == Unit(unit)
    IN  /\ arguments >= code.required
        /\ (code.rest \/ arguments <= code.required + code.optional)

\* CompiledCode::label_for_number_of_arguments: the arity as the message
\* shows it.
LabelForNumberOfArguments(unit) ==
    LET code == Unit(unit)
    IN  IF code.rest THEN ToString(code.required) \o "+"
        ELSE IF code.optional = 0 THEN ToString(code.required)
        ELSE ToString(code.required) \o ".." \o ToString(code.required + code.optional)

\* Machine::validate_number_of_arguments
ValidateNumberOfArgumentsPositionalOnly(unit, given_positional, given_keyword) ==
    LET arguments == given_positional
    IN  [ok |-> ValidNumberOfArguments(unit, arguments),
         msg |-> ArityMessage(Unit(unit).name, LabelForNumberOfArguments(unit),
                              arguments)]

ValidateNumberOfArguments(unit, given_positional, given_keyword) ==
    LET arguments == given_positional + given_keyword
    IN  [ok |-> ValidNumberOfArguments(unit, arguments),
         msg |-> ArityMessage(Unit(unit).name, LabelForNumberOfArguments(unit),
                              arguments)]

\* Machine::prepare_keyword_arguments: every (name, value) register pair of
\* a, from position k on, overwrites the local the name stands for.
RECURSIVE PrepareKeywordArguments(_, _, _, _, _)
PrepareKeywordArguments(regs, a, unit, locals, k) ==
    IF k + 1 > Len(a) THEN locals
    ELSE LET key == regs[a[k]]
             val == regs[a[k + 1]]
             at == ArgumentPosition(unit, key)
         IN  PrepareKeywordArguments(regs, a, unit,
                 IF at \in Locals THEN [locals EXCEPT ![at] = val] ELSE locals, k + 2)

\* Machine::set_positional_arguments: local i receives the register that the
\* i-th of `registers` names.
SetPositionalArguments(regs, locals, registers) ==
    [l \in Locals |->
        IF l < Len(registers) THEN regs[registers[l + 1]] ELSE locals[l]]

\* Machine::pack_excessive_arguments: a new array of the registers' values.
PackExcessiveArgumentsReversed(regs, locals, pack_local, registers) ==
    [locals EXCEPT ![pack_local] =
        ArrV([i \in 1..Len(registers) |->
                 regs[registers[Len(registers) + 1 - i]]])]

PackExcessiveArguments(regs, locals, pack_local, registers) ==
    [locals EXCEPT ![pack_local] =
        ArrV([i \in 1..Len(registers) |-> regs[registers[i]]])]

\* CompiledCode::rest_argument_index: the local after the last optional
\* argument.
RestArgumentIndex(unit) == Unit(unit).required + Unit(unit).optional

\* Machine::prepare_new_context: the locals of the called context, filled
\* from the registers `regs` of the process's current context.
PrepareNewContext(regs, a, unit, locals, given_positional, given_keyword, pos_start) ==
    LET code == Unit(unit)
        total == code.required + code.optional
        pos_args == IF given_positional > total THEN total ELSE given_positional
        excessive == code.rest /\ given_positional > total
        pos_end == pos_start + pos_args
        key_start == pos_start + given_positional
        l1 == SetPositionalArguments(regs, locals, SubSeq(a, pos_start + 1, pos_end))
        l2 == IF excessive
              THEN PackExcessiveArguments(regs, l1, RestArgumentIndex(unit),
                                          SubSeq(a, pos_end + 1, key_start))
              ELSE l1
        l3 == IF given_keyword > 0
              THEN PrepareKeywordArguments(regs, a, unit, l2, key_start + 1)
              ELSE l2
        valid == ValidateNumberOfArguments(unit, given_positional, given_keyword)
    IN  [ok |-> valid.ok, msg |-> valid.msg, locals |-> l3]

-----------------------------------------------------------------------------
(* Safepoints.                                                             *)

\* Machine::gc_safepoint: the GC request to schedule ("none": no collection
\* is due).
GcSafepointMailboxFirst(young, mbox) ==
    IF mbox THEN "mailbox" ELSE IF young THEN "heap" ELSE "none"

GcSafepoint(young, mbox) ==
    IF young THEN "heap" ELSE IF mbox THEN "mailbox" ELSE "none"

\* safepoint_and_reduce!: what the interpreter does at a safepoint, and the
\* reductions it is left with.
SafepointAndReduceToZero(young, mbox, red) ==
    IF GcSafepoint(young, mbox) # "none"
    THEN [act |-> "gc", kind |-> GcSafepoint(young, mbox), reductions |-> red]
    ELSE IF red > 1
    THEN [act |-> "continue", kind |-> "none", reductions |-> red - 1]
    ELSE [act |-> "requeue", kind |-> "none", reductions |-> 0]

SafepointAndReduce(young, mbox, red) ==
    IF GcSafepoint(young, mbox) # "none"
    THEN [act |-> "gc", kind |-> GcSafepoint(young, mbox), reductions |-> red]
    ELSE IF red > 0
    THEN [act |-> "continue", kind |-> "none", reductions |-> red - 1]
    ELSE [act |-> "requeue", kind |-> "none", reductions |-> red]

-----------------------------------------------------------------------------
(* The instruction handlers of Machine::run as functions of the context    *)
(* stack.  idx is the loop's `index` after the fetch (one past the         *)
(* instruction), a the instruction's arguments.  A handler yields the new  *)
(* stack, the index the loop continues at, and how control leaves it:      *)
(*   "cont"       the loop goes on                                         *)
(*   "safepoint"  safepoint_and_reduce! follows                            *)
(*   "release"    return Ok(()) with the process suspended                 *)
(*   "moved"      the process was scheduled on pool `pool`; return Ok(())  *)
(*   "finish"     break 'exec_loop                                         *)
(*   "exit"       the exit status is set to `status`; return Ok(())        *)
(*   "err"        return Err(msg)                                          *)
(* note and exp only observe: what happened, and the index the process is  *)
(* expected to resume at when control leaves the interpreter.              *)

Out(stack, idx, ctl, note, exp) ==
    [stack |-> stack, idx |-> idx, ctl |-> ctl, msg |-> "", status |-> 0,
     pool |-> 0, note |-> note, exp |-> exp]

Err(stack, idx, msg) ==
    [stack |-> stack, idx |-> idx, ctl |-> "err", msg |-> msg, status |-> 0,
     pool |-> 0, note |-> "err", exp |-> -1]

SetRegisterOfTop(stack, r, v) == [stack EXCEPT ![Len(stack)].register[r] = v]

\* Return with a return register: the caller's register receives the object.
SetReturnValueInReturningContext(stack, object) ==
    LET context == Top(stack)
    IN  IF context.return_register # -1 /\ Len(stack) > 1
        THEN [stack EXCEPT ![Len(stack)].register[context.return_register] = object]
        ELSE stack

SetReturnValue(stack, object) ==
    LET context == Top(stack)
    IN  IF context.return_register # -1 /\ Len(stack) > 1
        THEN [stack EXCEPT ![Len(stack) - 1].register[context.return_register] = object]
        ELSE stack

\* InstructionType::Return
ReturnStep(stack, idx, a) ==
    LET pos == Len(stack)
        context == Top(stack)
        sched == ScheduleDeferredBlocks(stack, pos, idx - 1)
    IN  IF sched.any
        THEN LET r == RememberAndReset(sched.stack, pos, idx)
             IN  Out(r.stack, r.idx, "cont", "rewind", -1)
        ELSE IF context.terminate_upon_return
        THEN Out(stack, idx, "finish", "handler returned", -1)
        ELSE LET object == IF Len(a) > 1 THEN context.register[a[2]] ELSE Nil
                 s1 == IF a[1] = 1 THEN UnwindUntilDefiningScope(stack) ELSE stack
                 c1 == Top(s1)
                 s2 == SetReturnValue(s1, object)
                 pop == PopContext(s2)
             IN  IF pop.root
                 THEN Out(s2, idx, "finish", "root returned", -1)
                 ELSE Out(Settle(pop.stack, c1), ResetContext(pop.stack),
                          "safepoint", "pop", c1.resume)

\* InstructionType::RunBlock
RunBlockStep(stack, idx, a) ==
    LET pos == Len(stack)
        context == Top(stack)
        blk == context.register[a[2]]
        new_ctx == NewContext(blk.s, a[1], BindingOf(blk, pos + 1), idx, 0)
        prep == PrepareNewContext(context.register, a, blk.s, new_ctx.locals,
                                  a[3], a[4], 4)
    IN  IF blk.k # "blk" THEN Err(stack, idx, "not a block")
        ELSE IF ~prep.ok THEN Err(stack, idx, prep.msg)
        ELSE LET e == EnterContext(
                          Append(stack, [new_ctx EXCEPT !.locals = prep.locals]),
                          pos, idx)
             IN  Out(e.stack, e.idx, "cont", "call", -1)

\* InstructionType::RunBlockWithReceiver
RunBlockWithReceiverStep(stack, idx, a) ==
    LET pos == Len(stack)
        context == Top(stack)
        blk == context.register[a[2]]
        new_ctx == [NewContext(blk.s, a[1], BindingOf(blk, pos + 1), idx, 0)
                        EXCEPT !.receiver = context.register[a[3]]]
        prep == PrepareNewContext(context.register, a, blk.s, new_ctx.locals,
                                  a[4], a[5], 5)
    IN  IF blk.k # "blk" THEN Err(stack, idx, "not a block")
        ELSE IF ~prep.ok THEN Err(stack, idx, prep.msg)
        ELSE LET e == EnterContext(
                          Append(stack, [new_ctx EXCEPT !.locals = prep.locals]),
                          pos, idx)
             IN  Out(e.stack, e.idx, "cont", "call", -1)

\* The bytecode files there are, and the top-level block of each.
ModuleFiles == {"a", "b"}

ModuleBlock(path) == IF path = "a" THEN UModA ELSE UModB

\* module::load under the registry's lock: a module the registry has is
\* returned with execute false; another one is parsed, kept and returned
\* with execute true.
ModuleLoad(registry, path) ==
    IF path.k # "str"
    THEN [ok |-> FALSE, msg |-> "not a string", block |-> "", execute |-> FALSE,
          registry |-> registry]
    ELSE IF path.s \in registry
    THEN [ok |-> TRUE, msg |-> "", block |-> ModuleBlock(path.s), execute |-> FALSE,
          registry |-> registry]
    ELSE IF path.s \notin ModuleFiles
    THEN [ok |-> FALSE, msg |-> "module not found", block |-> "",
          execute |-> FALSE, registry |-> registry]
    ELSE [ok |-> TRUE, msg |-> "", block |-> ModuleBlock(path.s), execute |-> TRUE,
          registry |-> registry \cup {path.s}]

\* InstructionType::LoadModule; load is what module::load returned.
LoadModuleStepIgnoringExecute(stack, idx, a, load) ==
    LET pos == Len(stack)
        new_context == NewContext(load.block, a[1], pos + 1, idx, 0)
        e == EnterContext(Append(stack, new_context), pos, idx)
    IN  IF ~load.ok THEN Err(stack, idx, load.msg)
        ELSE Out(e.stack, e.idx, "cont", "module", -1)

LoadModuleStep(stack, idx, a, load) ==
    LET pos == Len(stack)
        new_context == NewContext(load.block, a[1], pos + 1, idx, 0)
        e == EnterContext(Append(stack, new_context), pos, idx)
    IN  IF ~load.ok THEN Err(stack, idx, load.msg)
        ELSE IF load.execute THEN Out(e.stack, e.idx, "cont", "module", -1)
        ELSE Out(SetRegisterOfTop(stack, a[1], Nil), idx, "cont", "cached", -1)

\* InstructionType::TailCall
TailCallStepClearingRegistersFirst(stack, idx, a) ==
    LET pos == Len(stack)
        context == Top(stack)
        cleared == [l \in Locals |-> Undef]
        prep == PrepareNewContext([r \in Regs |-> Undef], a, context.code, cleared,
                                  a[1], a[2], 2)
    IN  IF ~prep.ok
        THEN Err([stack EXCEPT ![pos].locals = cleared], idx, prep.msg)
        ELSE LET s1 == [stack EXCEPT ![pos].locals = prep.locals,
                                     ![pos].register = [r \in Regs |-> Undef],
                                     ![pos].instruction_index = 0]
             IN  Out(s1, ResetContext(s1), "safepoint", "tailcall", 0)

TailCallStep(stack, idx, a) ==
    LET pos == Len(stack)
        context == Top(stack)
        cleared == [l \in Locals |-> Undef]
        prep == PrepareNewContext(context.register, a, context.code, cleared,
                                  a[1], a[2], 2)
    IN  IF ~prep.ok
        THEN Err([stack EXCEPT ![pos].locals = cleared], idx, prep.msg)
        ELSE LET s1 == [stack EXCEPT ![pos].locals = prep.locals,
                                     ![pos].register = [r \in Regs |-> Undef],
                                     ![pos].instruction_index = 0]
             IN  Out(s1, ResetContext(s1), "safepoint", "tailcall", 0)

\* InstructionType::Throw
ThrowStep(stack, idx, a, pid) ==
    LET tv == ThrowValue(stack, Top(stack).register[a[1]], idx)
    IN  IF tv.ok THEN Out(tv.stack, tv.idx, "cont", "caught", -1)
        ELSE Err(tv.stack, tv.idx, UncaughtThrowMessage(pid))

\* InstructionType::IntegerDiv
IntegerDivStep(stack, idx, a) ==
    LET context == Top(stack)
        divide_with == context.register[a[3]]
    IN  IF IsZeroInteger(divide_with) THEN Err(stack, idx, DivZeroMessage)
        ELSE Out(SetRegisterOfTop(stack, a[1],
                                  IntV(context.register[a[2]].n \div divide_with.n)),
                 idx, "cont", "divided", -1)

\* InstructionType::IntegerMod with a divisor that is not zero.  (With a zero
\* divisor nothing in the handler or in integer_overflow_op! tests it: the
\* remainder operation of the host panics, see IntegerMod below.)
IntegerModStep(stack, idx, a) ==
    LET context == Top(stack)
    IN  Out(SetRegisterOfTop(stack, a[1],
                IntV(context.register[a[2]].n % context.register[a[3]].n)),
            idx, "cont", "modulo", -1)

\* InstructionType::MoveToPool; thread_id is the worker the process is pinned
\* to (0: none), pool_id its current pool.
MoveToPoolStepIgnoringPin(stack, idx, a, thread_id, pool_id) ==
    LET pool_ptr == Top(stack).register[a[2]]
    IN  IF ~IsU8(pool_ptr)
        THEN Err(stack, idx, "not a u8")
        ELSE IF pool_ptr.n \notin Pools
        THEN Err(stack, idx, InvalidPoolMessage(pool_ptr.n))
        ELSE IF pool_ptr.n = pool_id
        THEN Out(SetRegisterOfTop(stack, a[1], FalseV), idx, "cont", "same pool", -1)
        ELSE [Out([SetRegisterOfTop(stack, a[1], TrueV) EXCEPT
                       ![Len(stack)].instruction_index = idx],
                  idx, "moved", "moved", idx) EXCEPT !.pool = pool_ptr.n]

MoveToPoolStep(stack, idx, a, thread_id, pool_id) ==
    LET pool_ptr == Top(stack).register[a[2]]
    IN  IF ~IsU8(pool_ptr)
        THEN Err(stack, idx, "not a u8")
        ELSE IF pool_ptr.n \notin Pools
        THEN Err(stack, idx, InvalidPoolMessage(pool_ptr.n))
        ELSE IF thread_id # 0
        THEN Out(SetRegisterOfTop(stack, a[1], FalseV), idx, "cont", "pinned", -1)
        ELSE IF pool_ptr.n = pool_id
        THEN Out(SetRegisterOfTop(stack, a[1], FalseV), idx, "cont", "same pool", -1)
        ELSE [Out([SetRegisterOfTop(stack, a[1], TrueV) EXCEPT
                       ![Len(stack)].instruction_index = idx],
                  idx, "moved", "moved", idx) EXCEPT !.pool = pool_ptr.n]

\* InstructionType::Exit
ExitStep(stack, idx, a) ==
    LET sched == ScheduleDeferredBlocksOfAllParents(stack, idx - 1)
        status_ptr == Top(stack).register[a[1]]
    IN  IF sched.any
        THEN LET r == RememberAndReset(sched.stack, Len(stack), idx)
             IN  Out(r.stack, r.idx, "cont", "rewind", -1)
        ELSE IF status_ptr.k # "int" THEN Err(stack, idx, "not an integer")
        ELSE [Out(stack, idx, "exit", "exit", -1) EXCEPT !.status = status_ptr.n]

\* InstructionType::ProcessSuspendCurrent: the index stored before the
\* process is suspended.
SuspendStep(stack, idx) ==
    Out([stack EXCEPT ![Len(stack)].instruction_index = idx], idx,
        "release", "suspend", idx)

\* A receive that stores the index of the instruction after it.
WaitStepNotRewinding(stack, idx) ==
    Out([stack EXCEPT ![Len(stack)].instruction_index = idx], idx,
        "release", "wait", idx)

\* InstructionType::ProcessReceiveMessage without a message: the index stored
\* before the process waits, so that the receive is retried.
WaitStep(stack, idx) ==
    Out([stack EXCEPT ![Len(stack)].instruction_index = idx - 1], idx,
        "release", "wait", idx - 1)

\* process::add_defer_to_caller: the block is deferred by the caller of the
\* current context (by the current context itself when it is the root).
AddDeferToCaller(stack, block) ==
    LET at == IF Len(stack) > 1 THEN Len(stack) - 1 ELSE Len(stack)
    IN  [stack EXCEPT ![at].deferred_blocks = Append(@, block),
                      ![at].owed = @ + 1]

\* Machine::run_custom_panic_handler up to the nested run: the handler's
\* context, marked terminate_upon_return and holding the message in local 0,
\* is pushed and every pending deferred block is scheduled on top of it.
RunCustomPanicHandler(stack, msg, h) ==
    LET new_context ==
            [NewContext(h.s, -1, BindingOf(h, Len(stack) + 1), -1, 0) EXCEPT
                 !.terminate_upon_return = TRUE, !.locals[0] = StrV(msg)]
    IN  IF h.k # "blk" THEN [ok |-> FALSE, stack |-> stack]
        ELSE IF ~ValidateNumberOfArguments(h.s, 1, 0).ok
        THEN [ok |-> FALSE, stack |-> stack]
        ELSE [ok |-> TRUE,
              stack |-> ScheduleDeferredBlocksOfAllParents(
                            Append(stack, new_context), 0).stack]

-----------------------------------------------------------------------------
(* The state machine.                                                      *)

Message(from, v) == [from |-> from, v |-> v]

MachineInit ==
    /\ input \in Inputs
    /\ loaded = [u \in MainUnits \cup CalledUnits |-> CompiledCode(u)]
    /\ module_registry = {}
    /\ \E u \in MainUnits :
           ctxs = [p \in Procs |->
                      IF p = MainPid THEN << NewContext(u, -1, 1, -1, 0) >> ELSE << >>]
    /\ index = [p \in Procs |-> 0]
    /\ reductions = [p \in Procs |-> 0]
    /\ phase = [p \in Procs |-> "fetch"]
    /\ running = [w \in Workers |-> 0]
    /\ queue = [pool \in Pools |-> [p \in Procs |->
                   IF pool = PRIMARY_POOL /\ p = MainPid THEN 1 ELSE 0]]
    /\ gcq = [p \in Procs |-> << >>]
    /\ parked = [p \in Procs |-> "no"]
    /\ waiting = [p \in Procs |-> FALSE]
    /\ mailbox = [p \in Procs |-> << >>]
    /\ gcYoung = [p \in Procs |-> FALSE]
    /\ gcMailbox = [p \in Procs |-> FALSE]
    /\ poolId = [p \in Procs |-> PRIMARY_POOL]
    /\ pinned = [p \in Procs |-> 0]
    /\ handler = [p \in Procs |-> Undef]
    /\ defaultHandler = Undef
    /\ life = [p \in Procs |-> IF p = MainPid THEN "alive" ELSE "unborn"]
    /\ exitStatus = 0
    /\ terminated = FALSE
    /\ panics = [p \in Procs |-> 0]
    /\ hist = [panicked |-> FALSE, builtin |-> FALSE, handled |-> FALSE,
               exitNZ |-> FALSE, exitRan |-> FALSE,
               sent |-> [p \in Procs |-> << >>], rcvd |-> [p \in Procs |-> << >>],
               safepoints |-> [p \in Procs |-> 0],
               executed |-> [m \in ModuleFiles |-> 0]]
    /\ last = [op |-> "init", p |-> 0, w |-> 0, at |-> 0, a |-> << >>,
               stack |-> << >>, ctl |-> "", note |-> "", exp |-> -1, msg |-> ""]

\* The instruction the loop fetches for process p.
Instr(p) == Unit(Top(ctxs[p]).code).instrs[index[p] + 1]

\* Worker w runs a process whose loop is about to execute an `op`.
Fetches(w, op) ==
    /\ running[w] # 0
    /\ phase[running[w]] = "fetch"
    /\ Instr(running[w]).op = op

\* ProcessPools::schedule: one more entry of p in the queue of pool.
Schedule(q, pool, p) == [q EXCEPT ![pool][p] = @ + 1]

\* Mailbox::send and Mailbox::receive: a queue, oldest message first.
MailboxSendInFront(mbox, m) == << m >> \o mbox

MailboxSend(mbox, m) == Append(mbox, m)

MailboxReceive(mbox) == [msg |-> Head(mbox), rest |-> Tail(mbox)]

\* State::set_exit_status as Exit and Machine::terminate_for_panic call it:
\* the exit status after a step that left the loop by ctl.
SetExitStatusOnEveryPanic(ctl, status, old) ==
    CASE ctl = "exit" -> status
      [] ctl \in {"builtin", "handler"} -> 1
      [] OTHER -> old

SetExitStatus(ctl, status, old) ==
    CASE ctl = "exit" -> status
      [] ctl = "builtin" -> 1
      [] OTHER -> old

\* Machine::terminate as Exit, Machine::terminate_for_panic and the end of
\* run() for the main process call it: every pool (the process pools, the GC
\* pool, the finalizer pool, the suspension list) is told to terminate.
TerminateForMainOnly(ctl, p, old) ==
    old \/ ctl = "exit" \/ (ctl \in {"finish", "builtin"} /\ p = MainPid)

TerminateWhenAProcessEnds(ctl, p, old) ==
    old \/ ctl \in {"exit", "builtin", "finish"}

Terminate(ctl, p, old) ==
    old \/ ctl \in {"exit", "builtin"} \/ (ctl = "finish" /\ p = MainPid)

\* ProcessTable::release: the PID of a finished process leaves the table.
ReleaseNothing(table, pid) == table

Release(table, pid) == [table EXCEPT ![pid] = "finished"]

\* Worker::unpin after the loop, for a process that finished while pinned.
WorkerStaysPinned(pin, p) == pin

WorkerUnpin(pin, p) == [pin EXCEPT ![p] = 0]

\* `return Ok(())`: control is back with the worker, which runs nothing.
KeepsProcess(run, w) == run

ReleaseWorker(run, w) == [run EXCEPT ![w] = 0]

\* What the other actions may have prepared for the step of an instruction.
Base == [ctxs |-> ctxs, queue |-> queue, life |-> life, pinned |-> pinned]

\* The step of worker w on process p that executed `op` with outcome o: the
\* tail of the loop iteration (safepoint_and_reduce!), the code after the
\* loop, and Machine::run_with_error_handling with Machine::panic.
Commit(w, p, op, o, b, h) ==
    LET sp == SafepointAndReduce(gcYoung[p], gcMailbox[p], reductions[p])
        hd == IF handler[p] # Undef THEN handler[p] ELSE defaultHandler
        custom == IF o.ctl = "err" /\ hd # Undef
                  THEN RunCustomPanicHandler(o.stack, o.msg, hd)
                  ELSE [ok |-> FALSE, stack |-> o.stack]
        ctl == CASE o.ctl = "safepoint" -> sp.act
                 [] o.ctl = "err" -> IF custom.ok THEN "handler" ELSE "builtin"
                 [] OTHER -> o.ctl
        stack == IF ctl = "handler" THEN custom.stack ELSE o.stack
        idx == IF ctl = "handler" THEN ResetContext(custom.stack) ELSE o.idx
        stays == ctl \in {"cont", "continue", "handler"}
    IN  /\ o.ctl = "err" => panics[p] < MaxPanics
        /\ ctxs' = [b.ctxs EXCEPT ![p] = stack]
        /\ index' = [index EXCEPT ![p] = idx]
        /\ reductions' = [reductions EXCEPT ![p] =
                             CASE ctl = "continue" -> sp.reductions
                               [] ctl = "handler" -> ReductionBudget
                               [] OTHER -> @]
        /\ running' = IF stays THEN running ELSE ReleaseWorker(running, w)
        /\ queue' = CASE ctl = "requeue" -> Schedule(b.queue, poolId[p], p)
                      [] ctl = "moved" -> Schedule(b.queue, o.pool, p)
                      [] OTHER -> b.queue
        /\ poolId' = IF ctl = "moved" THEN [poolId EXCEPT ![p] = o.pool] ELSE poolId
        /\ gcq' = CASE ctl = "gc" -> [gcq EXCEPT ![p] = Append(@, sp.kind)]
                    [] ctl = "finish" -> [gcq EXCEPT ![p] = Append(@, "finished")]
                    [] OTHER -> gcq
        /\ life' = CASE ctl = "finish" -> Release(b.life, p)
                     [] ctl = "exit" -> [b.life EXCEPT ![p] = "exited"]
                     [] ctl = "builtin" -> [b.life EXCEPT ![p] = "dead"]
                     [] OTHER -> b.life
        /\ pinned' = IF ctl = "finish" THEN WorkerUnpin(b.pinned, p) ELSE b.pinned
        /\ exitStatus' = SetExitStatus(ctl, o.status, exitStatus)
        /\ terminated' = Terminate(ctl, p, terminated)
        /\ panics' = IF o.ctl = "err" THEN [panics EXCEPT ![p] = @ + 1] ELSE panics
        /\ hist' = [h EXCEPT !.panicked = @ \/ o.ctl = "err",
                             !.builtin = @ \/ ctl = "builtin",
                             !.handled = @ \/ ctl = "handler",
                             !.exitNZ = @ \/ (ctl = "exit" /\ o.status # 0),
                             !.exitRan = @ \/ ctl = "exit",
                             !.safepoints[p] =
                                 CASE ctl = "handler" -> 0
                                   [] ctl \in {"continue", "requeue"} -> @ + 1
                                   [] OTHER -> @]
        /\ last' = [op |-> op, p |-> p, w |-> w, at |-> index[p], a |-> Instr(p).a,
                    stack |-> ctxs[p], ctl |-> ctl, note |-> o.note, exp |-> o.exp,
                    msg |-> o.msg]

\* The variables Commit leaves to the action.
Rest == <<outside, input, loaded, module_registry, phase, parked, waiting, mailbox, gcYoung, gcMailbox, handler,
          defaultHandler>>

\* An instruction that only writes register r of the current context.
SetsRegister(w, op, r, v) ==
    LET p == running[w]
    IN  /\ Commit(w, p, op,
                  Out(SetRegisterOfTop(ctxs[p], r, v), index[p] + 1, "cont", "", -1),
                  Base, hist)
        /\ UNCHANGED Rest

\* A worker of the pool takes a process from the pool's queue and calls
\* Machine::run_with_error_handling: run() starts with the configured
\* reductions at the index the current context stored.
Dequeue(w, p) ==
    /\ ~terminated
    /\ running[w] = 0
    /\ queue[WorkerPool(w)][p] > 0
    /\ IF pinned[p] # 0 THEN pinned[p] = w ELSE \A q \in Procs : pinned[q] # w
    /\ running' = [running EXCEPT ![w] = p]
    /\ queue' = [queue EXCEPT ![WorkerPool(w)][p] = @ - 1]
    /\ index' = [index EXCEPT ![p] = ResetContext(ctxs[p])]
    /\ reductions' = [reductions EXCEPT ![p] = ReductionBudget]
    /\ hist' = [hist EXCEPT !.safepoints[p] = 0]
    /\ last' = [op |-> "dequeue", p |-> p, w |-> w, at |-> index[p], a |-> << >>,
                stack |-> ctxs[p], ctl |-> "run", note |-> "", exp |-> -1, msg |-> ""]
    /\ UNCHANGED <<outside, input, loaded, module_registry, ctxs, phase, gcq, parked, waiting, mailbox, gcYoung,
                   gcMailbox, poolId, pinned, handler, defaultHandler, life,
                   exitStatus, terminated, panics>>

SetLiteral(w) ==
    /\ Fetches(w, "SetLiteral")
    /\ LET p == running[w]
           a == Instr(p).a
       IN  SetsRegister(w, "SetLiteral", a[1],
                        Unit(Top(ctxs[p]).code).lits[a[2] + 1])

SetRegister(w) ==
    /\ Fetches(w, "SetRegister")
    /\ LET p == running[w]
           a == Instr(p).a
       IN  SetsRegister(w, "SetRegister", a[1], Top(ctxs[p]).register[a[2]])

GetLocal(w) ==
    /\ Fetches(w, "GetLocal")
    /\ LET p == running[w]
           a == Instr(p).a
       IN  SetsRegister(w, "GetLocal", a[1], Top(ctxs[p]).locals[a[2]])

\* block::create: the block captures the binding of the current context when
\* its code unit captures.
SetBlock(w) ==
    /\ Fetches(w, "SetBlock")
    /\ LET p == running[w]
           a == Instr(p).a
           cc == Unit(Top(ctxs[p]).code).children[a[2] + 1]
       IN  SetsRegister(w, "SetBlock", a[1],
               BlkV(cc, IF Unit(cc).captures THEN Top(ctxs[p]).top_binding ELSE 0))

SetLocal(w) ==
    /\ Fetches(w, "SetLocal")
    /\ LET p == running[w]
           a == Instr(p).a
       IN  /\ Commit(w, p, "SetLocal",
                     Out([ctxs[p] EXCEPT ![Len(ctxs[p])].locals[a[1]] =
                                             Top(ctxs[p]).register[a[2]]],
                         index[p] + 1, "cont", "", -1),
                     Base, hist)
           /\ UNCHANGED Rest

GotoIfFalse(w) ==
    /\ Fetches(w, "GotoIfFalse")
    /\ LET p == running[w]
           a == Instr(p).a
       IN  /\ Commit(w, p, "GotoIfFalse",
                     Out(ctxs[p],
                         IF IsFalse(Top(ctxs[p]).register[a[2]]) THEN a[1]
                         ELSE index[p] + 1,
                         "cont", "", -1),
                     Base, hist)
           /\ UNCHANGED Rest

\* object::create allocates on the process heap, after which a collection of
\* the young generation may be due.
SetObject(w) ==
    /\ Fetches(w, "SetObject")
    /\ LET p == running[w]
           a == Instr(p).a
       IN  /\ Commit(w, p, "SetObject",
                     Out(SetRegisterOfTop(ctxs[p], a[1], Val("obj", 0, 0, "")),
                         index[p] + 1, "cont", "", -1),
                     Base, hist)
           /\ \E due \in BOOLEAN : gcYoung' = [gcYoung EXCEPT ![p] = @ \/ due]
           /\ UNCHANGED <<outside, input, loaded, module_registry, phase, parked, waiting, mailbox, gcMailbox,
                          handler, defaultHandler>>

\* An instruction whose handler is a function of the context stack.
Steps(w, op, o) ==
    /\ Commit(w, running[w], op, o, Base, hist)
    /\ UNCHANGED Rest

\* The variables of Rest but the module registry.
RestOfLoadModule == <<outside, input, loaded, phase, parked, waiting, mailbox, gcYoung,
                      gcMailbox, handler, defaultHandler>>

\* hist.executed counts the contexts pushed for a module's top-level block.
LoadModule(w) ==
    /\ Fetches(w, "LoadModule")
    /\ LET p == running[w]
           a == Instr(p).a
           path == Top(ctxs[p]).register[a[2]]
           load == ModuleLoad(module_registry, path)
           o == LoadModuleStep(ctxs[p], index[p] + 1, a, load)
           h == IF o.ctl # "err" /\ Len(o.stack) > Len(ctxs[p])
                THEN [hist EXCEPT !.executed[path.s] = @ + 1]
                ELSE hist
       IN  /\ Commit(w, p, "LoadModule", o, Base, h)
           /\ module_registry' = load.registry
           /\ UNCHANGED RestOfLoadModule

Return(w) ==
    /\ Fetches(w, "Return")
    /\ LET p == running[w]
       IN  Steps(w, "Return", ReturnStep(ctxs[p], index[p] + 1, Instr(p).a))

RunBlock(w) ==
    /\ Fetches(w, "RunBlock")
    /\ LET p == running[w]
       IN  Steps(w, "RunBlock", RunBlockStep(ctxs[p], index[p] + 1, Instr(p).a))

RunBlockWithReceiver(w) ==
    /\ Fetches(w, "RunBlockWithReceiver")
    /\ LET p == running[w]
       IN  Steps(w, "RunBlockWithReceiver",
                 RunBlockWithReceiverStep(ctxs[p], index[p] + 1, Instr(p).a))

TailCall(w) ==
    /\ Fetches(w, "TailCall")
    /\ LET p == running[w]
       IN  Steps(w, "TailCall", TailCallStep(ctxs[p], index[p] + 1, Instr(p).a))

ThrowInstruction(w) ==
    /\ Fetches(w, "Throw")
    /\ LET p == running[w]
       IN  Steps(w, "Throw", ThrowStep(ctxs[p], index[p] + 1, Instr(p).a, p))

IntegerDiv(w) ==
    /\ Fetches(w, "IntegerDiv")
    /\ LET p == running[w]
       IN  Steps(w, "IntegerDiv", IntegerDivStep(ctxs[p], index[p] + 1, Instr(p).a))

\* With a zero divisor the host's remainder operation panics inside run();
\* panic::catch_unwind of run_with_error_handling turns that into a panic of
\* the process, with the host's message when the payload is a String and with
\* the unknown-error message otherwise.
IntegerMod(w) ==
    /\ Fetches(w, "IntegerMod")
    /\ LET p == running[w]
           a == Instr(p).a
       IN  IF IsZeroInteger(Top(ctxs[p]).register[a[3]])
           THEN \E msg \in {RemZeroMessage, UnknownPanicMessage} :
                    Steps(w, "IntegerMod", Err(ctxs[p], index[p] + 1, msg))
           ELSE Steps(w, "IntegerMod", IntegerModStep(ctxs[p], index[p] + 1, a))

MoveToPool(w) ==
    /\ Fetches(w, "MoveToPool")
    /\ LET p == running[w]
       IN  Steps(w, "MoveToPool",
                 MoveToPoolStep(ctxs[p], index[p] + 1, Instr(p).a, pinned[p], poolId[p]))

Panic(w) ==
    /\ Fetches(w, "Panic")
    /\ LET p == running[w]
           msg == Top(ctxs[p]).register[Instr(p).a[1]]
       IN  Steps(w, "Panic",
                 Err(ctxs[p], index[p] + 1,
                     IF msg.k = "str" THEN msg.s ELSE "not a string"))

Exit(w) ==
    /\ Fetches(w, "Exit")
    /\ LET p == running[w]
       IN  Steps(w, "Exit", ExitStep(ctxs[p], index[p] + 1, Instr(p).a))

ProcessTerminateCurrent(w) ==
    /\ Fetches(w, "ProcessTerminateCurrent")
    /\ LET p == running[w]
       IN  Steps(w, "ProcessTerminateCurrent",
                 Out(ctxs[p], index[p] + 1, "finish", "terminate current", -1))

ProcessAddDeferToCaller(w) ==
    /\ Fetches(w, "ProcessAddDeferToCaller")
    /\ LET p == running[w]
           a == Instr(p).a
           block == Top(ctxs[p]).register[a[2]]
       IN  Steps(w, "ProcessAddDeferToCaller",
                 IF block.k # "blk" THEN Err(ctxs[p], index[p] + 1, "not a block")
                 ELSE Out(SetRegisterOfTop(AddDeferToCaller(ctxs[p], block), a[1], block),
                          index[p] + 1, "cont", "", -1))

ProcessSetPanicHandler(w) ==
    /\ Fetches(w, "ProcessSetPanicHandler")
    /\ LET p == running[w]
           a == Instr(p).a
           block == Top(ctxs[p]).register[a[2]]
       IN  /\ Commit(w, p, "ProcessSetPanicHandler",
                     Out(SetRegisterOfTop(ctxs[p], a[1], block), index[p] + 1,
                         "cont", "", -1),
                     Base, hist)
           /\ handler' = [handler EXCEPT ![p] = block]
           /\ UNCHANGED <<outside, input, loaded, module_registry, phase, parked, waiting, mailbox, gcYoung,
                          gcMailbox, defaultHandler>>

SetDefaultPanicHandler(w) ==
    /\ Fetches(w, "SetDefaultPanicHandler")
    /\ LET p == running[w]
           a == Instr(p).a
           block == Top(ctxs[p]).register[a[2]]
       IN  /\ Commit(w, p, "SetDefaultPanicHandler",
                     Out(SetRegisterOfTop(ctxs[p], a[1], block), index[p] + 1,
                         "cont", "", -1),
                     Base, hist)
           /\ defaultHandler' = block
           /\ UNCHANGED <<outside, input, loaded, module_registry, phase, parked, waiting, mailbox, gcYoung,
                          gcMailbox, handler>>

\* process::pin_thread and process::unpin_thread on the affinity of the
\* processes: p is pinned to the worker w that runs it, and p is pinned to no
\* worker.
PinThread(pin, p, w) == [pin EXCEPT ![p] = w]

UnpinThreadKeepingAffinity(pin, p) == pin

UnpinThread(pin, p) == [pin EXCEPT ![p] = 0]

\* process::pin_thread: the process is pinned to the worker that runs it.
ProcessPinThread(w) ==
    /\ Fetches(w, "ProcessPinThread")
    /\ LET p == running[w]
           a == Instr(p).a
           o == Out(SetRegisterOfTop(ctxs[p], a[1],
                                     IF pinned[p] = 0 THEN TrueV ELSE FalseV),
                    index[p] + 1, "cont", "", -1)
       IN  /\ Commit(w, p, "ProcessPinThread", o,
                     [Base EXCEPT !.pinned = PinThread(pinned, p, w)], hist)
           /\ UNCHANGED Rest

\* process::unpin_thread
ProcessUnpinThread(w) ==
    /\ Fetches(w, "ProcessUnpinThread")
    /\ LET p == running[w]
           a == Instr(p).a
           o == Out(SetRegisterOfTop(ctxs[p], a[1],
                                     IF pinned[p] # 0 THEN TrueV ELSE FalseV),
                    index[p] + 1, "cont", "", -1)
       IN  /\ Commit(w, p, "ProcessUnpinThread", o,
                     [Base EXCEPT !.pinned = UnpinThread(pinned, p)], hist)
           /\ UNCHANGED Rest

\* process::spawn: a new process with the block as its root context, put in
\* the queue of the pool.
ProcessSpawn(w) ==
    /\ Fetches(w, "ProcessSpawn")
    /\ \E n \in Procs : life[n] = "unborn"
    /\ LET p == running[w]
           a == Instr(p).a
           block == Top(ctxs[p]).register[a[2]]
           pool_id == Top(ctxs[p]).register[a[3]].n
           c == CHOOSE n \in Procs :
                    life[n] = "unborn" /\ \A d \in Procs : life[d] = "unborn" => n <= d
           b == [Base EXCEPT !.ctxs[c] = << NewContext(block.s, -1, 1, -1, 0) >>,
                             !.queue = Schedule(queue, pool_id, c),
                             !.life[c] = "alive"]
       IN  /\ Commit(w, p, "ProcessSpawn",
                     Out(SetRegisterOfTop(ctxs[p], a[1], IntV(c)), index[p] + 1,
                         "cont", "", -1),
                     b, hist)
           /\ UNCHANGED Rest

\* process::send_message: the message is appended to the receiver's mailbox;
\* a receiver in the waiting state becomes runnable and is put in its queue.
ProcessSendMessage(w) ==
    /\ Fetches(w, "ProcessSendMessage")
    /\ LET p == running[w]
           a == Instr(p).a
           rec == Top(ctxs[p]).register[a[2]].n
           msg == Top(ctxs[p]).register[a[3]]
           there == rec \in Procs /\ life[rec] = "alive"
           wakes == there /\ parked[rec] \in {"msg", "msgT"}
           b == IF wakes
                THEN [Base EXCEPT !.queue = Schedule(queue, poolId[rec], rec)]
                ELSE Base
           h == [hist EXCEPT !.sent[p] = Append(@, <<rec, msg.n>>)]
       IN  /\ Commit(w, p, "ProcessSendMessage",
                     Out(SetRegisterOfTop(ctxs[p], a[1], msg), index[p] + 1,
                         "cont", "", -1),
                     b, h)
           /\ mailbox' = IF there
                         THEN [mailbox EXCEPT ![rec] = MailboxSend(@, Message(p, msg))]
                         ELSE mailbox
           /\ gcMailbox' = IF there /\ Len(mailbox[rec]) + 1 >= MailboxThreshold
                           THEN [gcMailbox EXCEPT ![rec] = TRUE]
                           ELSE gcMailbox
           /\ parked' = IF wakes THEN [parked EXCEPT ![rec] = "no"] ELSE parked
           /\ UNCHANGED <<outside, input, loaded, module_registry, phase, waiting, gcYoung, handler, defaultHandler>>

\* The branch ProcessReceiveMessage takes: a message is there, or the process
\* was waiting (a timeout expired), or it has to wait.
ReceiveBranchPolling(mbox, is_waiting) ==
    IF mbox # << >> THEN "received" ELSE "timed out"

ReceiveBranch(mbox, is_waiting) ==
    IF mbox # << >> THEN "received"
    ELSE IF is_waiting THEN "timed out" ELSE "wait"

\* process::optional_timeout and process::wait_for_message: how the process is
\* parked for a timeout value, "msg" until a message arrives, "msgT" until a
\* message arrives or the timeout expires.
OptionalTimeout(time_ptr) ==
    IF time_ptr = Nil THEN {"msg"}
    ELSE IF time_ptr.n = 0 THEN {"msg", "msgT"}
    ELSE {"msgT"}

\* ProcessReceiveMessage up to the decision to wait: a message is taken, or
\* nil is produced for an expired timeout, or the handler goes on to wait.
ProcessReceiveMessage(w) ==
    /\ Fetches(w, "ProcessReceiveMessage")
    /\ LET p == running[w]
           a == Instr(p).a
           branch == ReceiveBranch(mailbox[p], waiting[p])
       IN  IF branch = "received"
           THEN /\ Commit(w, p, "ProcessReceiveMessage",
                          Out(SetRegisterOfTop(ctxs[p], a[1],
                                               MailboxReceive(mailbox[p]).msg.v),
                              index[p] + 1, "cont", "received", -1),
                          Base,
                          [hist EXCEPT !.rcvd[p] =
                               Append(@, <<MailboxReceive(mailbox[p]).msg.from,
                                           MailboxReceive(mailbox[p]).msg.v.n>>)])
                /\ mailbox' = [mailbox EXCEPT ![p] = MailboxReceive(@).rest]
                /\ waiting' = [waiting EXCEPT ![p] = FALSE]
                /\ UNCHANGED <<outside, input, loaded, module_registry, phase, parked, gcYoung, gcMailbox, handler,
                               defaultHandler>>
           ELSE IF branch = "timed out"
           THEN /\ Commit(w, p, "ProcessReceiveMessage",
                          Out(SetRegisterOfTop(ctxs[p], a[1], Nil), index[p] + 1,
                              "cont", "timed out", -1),
                          Base, hist)
                /\ waiting' = [waiting EXCEPT ![p] = FALSE]
                /\ UNCHANGED <<outside, input, loaded, module_registry, phase, parked, mailbox, gcYoung, gcMailbox,
                               handler, defaultHandler>>
           ELSE /\ phase' = [phase EXCEPT ![p] = "wait"]
                /\ UNCHANGED <<outside, input, loaded, module_registry, ctxs, index, reductions, running, queue, gcq,
                               parked, waiting, mailbox, gcYoung, gcMailbox, poolId,
                               pinned, handler, defaultHandler, life, exitStatus,
                               terminated, panics, hist, last>>

\* The rest of ProcessReceiveMessage: the index of the receive is stored and
\* process::wait_for_message puts the process in the waiting state, with the
\* timeout (if any) on the suspension list.
WaitForMessage(w) ==
    /\ running[w] # 0
    /\ phase[running[w]] = "wait"
    /\ LET p == running[w]
           time_ptr == Top(ctxs[p]).register[Instr(p).a[2]]
       IN  /\ Commit(w, p, "ProcessReceiveMessage", WaitStep(ctxs[p], index[p] + 1),
                     Base, hist)
           /\ phase' = [phase EXCEPT ![p] = "fetch"]
           /\ waiting' = [waiting EXCEPT ![p] = TRUE]
           /\ \E kind \in OptionalTimeout(time_ptr) :
                  parked' = [parked EXCEPT ![p] = kind]
           /\ UNCHANGED <<outside, input, loaded, module_registry, mailbox, gcYoung, gcMailbox, handler, defaultHandler>>

\* process::suspend: the process sleeps on the suspension list.
ProcessSuspendCurrent(w) ==
    /\ Fetches(w, "ProcessSuspendCurrent")
    /\ LET p == running[w]
       IN  /\ Commit(w, p, "ProcessSuspendCurrent",
                     SuspendStep(ctxs[p], index[p] + 1), Base, hist)
           /\ parked' = [parked EXCEPT ![p] = "sleep"]
           /\ UNCHANGED <<outside, input, loaded, module_registry, phase, waiting, mailbox, gcYoung, gcMailbox,
                          handler, defaultHandler>>

\* The suspension worker: the deadline of a sleeping or waiting process has
\* passed and the process is put back in the queue of its pool.
TimeoutExpire(p) ==
    /\ ~terminated
    /\ parked[p] \in {"msgT", "sleep"}
    /\ parked' = [parked EXCEPT ![p] = "no"]
    /\ queue' = Schedule(queue, poolId[p], p)
    /\ last' = [op |-> "timeout", p |-> p, w |-> 0, at |-> index[p], a |-> << >>,
                stack |-> ctxs[p], ctl |-> "queued", note |-> "", exp |-> -1, msg |-> ""]
    /\ UNCHANGED <<outside, input, loaded, module_registry, ctxs, index, reductions, phase, running, gcq, waiting,
                   mailbox, gcYoung, gcMailbox, poolId, pinned, handler,
                   defaultHandler, life, exitStatus, terminated, panics, hist>>

\* A worker of the GC pool performs the oldest request of p; after a heap or
\* mailbox collection the process is put back in the queue of its pool.
GcPerform(p) ==
    /\ ~terminated
    /\ gcq[p] # << >>
    /\ gcq' = [gcq EXCEPT ![p] = Tail(@)]
    /\ gcYoung' = IF Head(gcq[p]) = "heap" THEN [gcYoung EXCEPT ![p] = FALSE]
                  ELSE gcYoung
    /\ gcMailbox' = IF Head(gcq[p]) = "mailbox" THEN [gcMailbox EXCEPT ![p] = FALSE]
                    ELSE gcMailbox
    /\ queue' = IF Head(gcq[p]) = "finished" THEN queue
                ELSE Schedule(queue, poolId[p], p)
    /\ last' = [op |-> "gc", p |-> p, w |-> 0, at |-> index[p], a |-> << >>,
                stack |-> ctxs[p], ctl |-> "queued", note |-> Head(gcq[p]), exp |-> -1, msg |-> ""]
    /\ UNCHANGED <<outside, input, loaded, module_registry, ctxs, index, reductions, phase, running, parked, waiting,
                   mailbox, poolId, pinned, handler, defaultHandler, life,
                   exitStatus, terminated, panics, hist>>

Next ==
    \/ \E w \in Workers, p \in Procs : Dequeue(w, p)
    \/ \E p \in Procs : TimeoutExpire(p)
    \/ \E p \in Procs : GcPerform(p)
    \/ \E w \in Workers : SetLiteral(w)
    \/ \E w \in Workers : LoadModule(w)
    \/ \E w \in Workers : SetRegister(w)
    \/ \E w \in Workers : GetLocal(w)
    \/ \E w \in Workers : SetBlock(w)
    \/ \E w \in Workers : SetLocal(w)
    \/ \E w \in Workers : GotoIfFalse(w)
    \/ \E w \in Workers : SetObject(w)
    \/ \E w \in Workers : Return(w)
    \/ \E w \in Workers : RunBlock(w)
    \/ \E w \in Workers : RunBlockWithReceiver(w)
    \/ \E w \in Workers : TailCall(w)
    \/ \E w \in Workers : ThrowInstruction(w)
    \/ \E w \in Workers : IntegerDiv(w)
    \/ \E w \in Workers : IntegerMod(w)
    \/ \E w \in Workers : MoveToPool(w)
    \/ \E w \in Workers : Panic(w)
    \/ \E w \in Workers : Exit(w)
    \/ \E w \in Workers : ProcessTerminateCurrent(w)
    \/ \E w \in Workers : ProcessAddDeferToCaller(w)
    \/ \E w \in Workers : ProcessSetPanicHandler(w)
    \/ \E w \in Workers : SetDefaultPanicHandler(w)
    \/ \E w \in Workers : ProcessPinThread(w)
    \/ \E w \in Workers : ProcessUnpinThread(w)
    \/ \E w \in Workers : ProcessSpawn(w)
    \/ \E w \in Workers : ProcessSendMessage(w)
    \/ \E w \in Workers : ProcessReceiveMessage(w)
    \/ \E w \in Workers : WaitForMessage(w)
    \/ \E w \in Workers : ProcessSuspendCurrent(w)

-----------------------------------------------------------------------------
(* Config::from_env (vm/src/config.rs).  The environment gives each of the *)
(* four INKO_ variables a raw value, a sequence of characters, or leaves   *)
(* it unset; raw values are parsed as str::parse::<u16> and ::<u8> parse   *)
(* them.                                                                   *)

DEFAULT_REDUCTIONS == 1000
DEFAULT_NETPOLL_THREADS == 1
MAX_NETPOLL_THREADS == 127

\* The widths of the fields: process_threads, backup_threads and reductions
\* are u16, netpoll_threads is u8.

Keys == {"PROCESS_THREADS", "BACKUP_THREADS", "REDUCTIONS", "NETPOLL_THREADS"}

\* std::env::var: Err for a variable that is not set.
Unset == [set |-> FALSE, raw |-> << >>]
Raw(chars) == [set |-> TRUE, raw |-> chars]

\* The value of a decimal digit (-1: the character is no digit).
DigitValue(c) ==
    CASE c = "0" -> 0 [] c = "1" -> 1 [] c = "2" -> 2 [] c = "3" -> 3
      [] c = "4" -> 4 [] c = "5" -> 5 [] c = "6" -> 6 [] c = "7" -> 7
      [] c = "8" -> 8 [] c = "9" -> 9 [] OTHER -> -1

\* The digits of an unsigned integer, most significant first, accumulated
\* into acc; -1 for a character that is no digit and for a value that does
\* not fit `bits` bits.
RECURSIVE ParseDigits(_, _, _)
ParseDigits(digits, acc, bits) ==
    IF digits = << >> THEN acc
    ELSE LET d == DigitValue(Head(digits))
             next == acc * 10 + d
         IN  IF d < 0 \/ next > 2 ^ bits - 1 THEN -1
             ELSE ParseDigits(Tail(digits), next, bits)

\* raw_value.parse::<u16>() and ::<u8>(): the value, or -1 for Err.  An
\* unsigned integer is a non-empty run of digits after an optional "+".
Parse(raw, bits) ==
    IF raw = << >> THEN -1
    ELSE IF Head(raw) \in {"+", "-"} /\ Tail(raw) = << >> THEN -1
    ELSE IF Head(raw) = "+" THEN ParseDigits(Tail(raw), 0, bits)
    ELSE ParseDigits(raw, 0, bits)

\* set_from_env!: the value of the field after the macro, `old` being its
\* value before.
SetFromEnvAcceptingZero(old, var, bits) ==
    IF var.set /\ Parse(var.raw, bits) >= 0 THEN Parse(var.raw, bits) ELSE old

SetFromEnv(old, var, bits) ==
    IF var.set
    THEN LET value == Parse(var.raw, bits)
         IN  IF value >= 0 /\ value > 0 THEN value ELSE old
    ELSE old

\* Config::new on a machine with cpu_count processors.
ConfigNew(cpu_count) ==
    [process_threads |-> cpu_count,
     backup_threads |-> (cpu_count * 4) % 2 ^ U16,
     netpoll_threads |-> DEFAULT_NETPOLL_THREADS,
     reductions |-> DEFAULT_REDUCTIONS]

\* Config::verify
VerifyKeepingEverything(c) == c

Verify(c) ==
    IF c.netpoll_threads > MAX_NETPOLL_THREADS
    THEN [c EXCEPT !.netpoll_threads = MAX_NETPOLL_THREADS]
    ELSE c

\* The four set_from_env! of Config::from_env.
ReadEnv(c, e) ==
    LET c1 == [c EXCEPT !.process_threads = SetFromEnv(@, e["PROCESS_THREADS"], U16)]
        c2 == [c1 EXCEPT !.backup_threads = SetFromEnv(@, e["BACKUP_THREADS"], U16)]
        c3 == [c2 EXCEPT !.reductions = SetFromEnv(@, e["REDUCTIONS"], U16)]
    IN  [c3 EXCEPT !.netpoll_threads = SetFromEnv(@, e["NETPOLL_THREADS"], U8)]

\* The processors available_parallelism() may report.
CpuCounts == {1, 2}

\* The raw values the variables are drawn from.
FewRaws == {Unset, Raw(<<"0">>), Raw(<<"4">>)}
WideRaws ==
    FewRaws \cup
    {Raw(<< >>), Raw(<<"+">>), Raw(<<"+", "4">>), Raw(<<"-", "4">>),
     Raw(<<"4", "x">>), Raw(<<" ", "4">>), Raw(<<"0", "0", "7">>),
     Raw(<<"1", "2", "7">>), Raw(<<"1", "2", "8">>), Raw(<<"2", "0", "0">>),
     Raw(<<"2", "5", "5">>), Raw(<<"2", "5", "6">>), Raw(<<"3", "0", "0">>),
     Raw(<<"6", "5", "5", "3", "5">>), Raw(<<"6", "5", "5", "3", "6">>)}

\* No Config has been built: the fields are those of Config::new.
NotBuilt(cpu_count) ==
    [built |-> FALSE, cpu_count |-> cpu_count, new |-> ConfigNew(cpu_count),
     read |-> ConfigNew(cpu_count), value |-> ConfigNew(cpu_count)]

ConfigIdle ==
    /\ env = [k \in Keys |-> Unset]
    /\ config = NotBuilt(1)

ConfigInit ==
    /\ env \in [Keys -> WideRaws]
    /\ env["PROCESS_THREADS"] \in FewRaws
    /\ env["BACKUP_THREADS"] \in FewRaws
    /\ \E cpu_count \in CpuCounts : config = NotBuilt(cpu_count)

\* Config::from_env.  new and read observe the Config as Config::new built it
\* and as it was before verify().
FromEnv ==
    /\ ~config.built
    /\ config' = [config EXCEPT !.built = TRUE,
                                !.read = ReadEnv(config.new, env),
                                !.value = Verify(ReadEnv(config.new, env))]
    /\ UNCHANGED <<machine, env, db, hir, diagnostics, pass, memory, socket>>

-----------------------------------------------------------------------------
(* DefineImportedTypes (compiler/src/type_check/imports.rs).  The type     *)
(* database holds the symbol table of every module; the pass walks the     *)
(* imports of the modules being compiled, in order, and defines what they  *)
(* import in the importing module.                                         *)

IMPORT_MODULE_ITSELF_NAME == "self"

\* The modules of the database, and the ModuleName (a path) of each.
ModuleIds == {"a", "b", "c"}
ModuleName(id) ==
    CASE id = "a" -> << "a" >> [] id = "b" -> << "lib", "b" >> [] OTHER -> << "c" >>

\* ModuleName::tail
NameTail(module_name) == module_name[Len(module_name)]

\* ModuleId::file
File(id) == id \o ".inko"

\* The names a symbol table may hold.
Names == {"a", "b", "c", "Foo", "_hid", "Nope", "X", IMPORT_MODULE_ITSELF_NAME}

\* Symbols: Symbol::Module(id), and a class or method `item` that module
\* `owner` defines, private or public.
NoSymbol == [kind |-> "none", item |-> "", owner |-> "", private |-> FALSE]
SymbolModule(id) == [kind |-> "module", item |-> id, owner |-> id, private |-> FALSE]
SymbolItem(kind, item, owner, private) ==
    [kind |-> kind, item |-> item, owner |-> owner, private |-> private]

\* Database::module: the module with the given name.
DbModule(module_name) == CHOOSE id \in ModuleIds : ModuleName(id) = module_name

\* ModuleId::symbol_exists
SymbolExists(database, module, name) == database[module][name] # NoSymbol

\* ModuleId::new_symbol
NewSymbol(database, module, name, symbol) ==
    [database EXCEPT ![module][name] = symbol]

\* ModuleId::import_symbol: the symbol `name` of the module `source`, if the
\* module defines it itself (NoSymbol: None).
ImportableSymbol(database, source, name) ==
    IF database[source][name].owner = source THEN database[source][name]
    ELSE NoSymbol

\* Symbol::is_visible_to
IsVisibleTo(symbol, module) == ~symbol.private \/ symbol.owner = module

\* Locations: the place of an identifier in the file of a module, by the
\* import it is in, the symbol of the import's list (0: the source path) and
\* the part of the symbol ("name", "as") or of the path ("source").
Loc(i, j, part) == [import |-> i, symbol |-> j, part |-> part]

\* hir::Identifier, hir::ImportSymbol and hir::Import as the parser builds
\* them for import number i of a file.
Identifier(name, location) == [name |-> name, location |-> location]
ImportSymbolNode(name, import_as) == [name |-> name, import_as |-> import_as]
ImportNode(source, symbols) == [source |-> source, symbols |-> symbols]

\* Diagnostics::duplicate_symbol, Diagnostics::undefined_symbol and
\* Diagnostics::error(InvalidSymbol, ...): the diagnostic recorded.
Diagnostic(id, file, location) == [id |-> id, file |-> file, location |-> location]

\* The pass's view of one imported item, kept for the properties: the
\* importing module, the item's place, the symbol table of the module and
\* the diagnostics before and after it.
Logged(st, before, module, i, j, source, name, import_as) ==
    [st EXCEPT !.log = Append(@,
        [module |-> module, import |-> i, symbol |-> j, source |-> source,
         name |-> name, import_as |-> import_as,
         before |-> before.db, after |-> st.db,
         reported |-> SubSeq(st.diagnostics, Len(before.diagnostics) + 1,
                             Len(st.diagnostics))])]

\* DefineImportedTypes::import_module
ImportModuleIgnoringAlias(st, module, source, import_as, location) ==
    LET name == NameTail(ModuleName(source))
    IN  IF SymbolExists(st.db, module, name)
        THEN [st EXCEPT !.diagnostics =
                  Append(@, Diagnostic("DuplicateSymbol", File(module), location))]
        ELSE [st EXCEPT !.db = NewSymbol(@, module, name, SymbolModule(source))]

ImportModule(st, module, source, import_as, location) ==
    LET name == IF import_as = IMPORT_MODULE_ITSELF_NAME
                THEN NameTail(ModuleName(source))
                ELSE import_as
    IN  IF SymbolExists(st.db, module, name)
        THEN [st EXCEPT !.diagnostics =
                  Append(@, Diagnostic("DuplicateSymbol", File(module), location))]
        ELSE [st EXCEPT !.db = NewSymbol(@, module, name, SymbolModule(source))]

\* DefineImportedTypes::import_symbol
ImportSymbolOverwriting(st, module, source, node) ==
    LET name == node.name.name
        import_as == node.import_as.name
        symbol == ImportableSymbol(st.db, source, name)
    IN  IF symbol # NoSymbol
        THEN IF ~IsVisibleTo(symbol, module)
             THEN [st EXCEPT !.diagnostics =
                       Append(@, Diagnostic("InvalidSymbol", File(module),
                                            node.name.location))]
             ELSE [st EXCEPT !.db = NewSymbol(@, module, import_as, symbol)]
        ELSE [st EXCEPT !.diagnostics =
                  Append(@, Diagnostic("InvalidSymbol", File(module),
                                       node.name.location))]

ImportSymbol(st, module, source, node) ==
    LET name == node.name.name
        import_as == node.import_as.name
        symbol == ImportableSymbol(st.db, source, name)
    IN  IF symbol # NoSymbol
        THEN IF SymbolExists(st.db, module, import_as)
             THEN [st EXCEPT !.diagnostics =
                       Append(@, Diagnostic("DuplicateSymbol", File(module),
                                            node.import_as.location))]
             ELSE IF ~IsVisibleTo(symbol, module)
             THEN [st EXCEPT !.diagnostics =
                       Append(@, Diagnostic("InvalidSymbol", File(module),
                                            node.name.location))]
             ELSE [st EXCEPT !.db = NewSymbol(@, module, import_as, symbol)]
        ELSE [st EXCEPT !.diagnostics =
                  Append(@, Diagnostic("InvalidSymbol", File(module),
                                       node.name.location))]

\* DefineImportedTypes::import_source
ImportSource(path) == [k \in 1..Len(path) |-> path[k].name]

\* DefineImportedTypes::import, the loop over node.symbols from symbol j on.
RECURSIVE ImportSymbols(_, _, _, _, _)
ImportSymbols(st, module, node, i, j) ==
    IF j > Len(node.symbols) THEN st
    ELSE LET source == DbModule(ImportSource(node.source))
             symbol == node.symbols[j]
             done == IF symbol.name.name = IMPORT_MODULE_ITSELF_NAME
                     THEN ImportModule(st, module, source, symbol.import_as.name,
                                       symbol.import_as.location)
                     ELSE ImportSymbol(st, module, source, symbol)
         IN  ImportSymbols(
                 Logged(done, st, module, i, j, source, symbol.name.name,
                        symbol.import_as.name),
                 module, node, i, j + 1)

\* DefineImportedTypes::import of import number i of the module.
Import(st, module, node, i) ==
    LET source_name == ImportSource(node.source)
        source == DbModule(source_name)
    IN  IF node.symbols = << >>
        THEN Logged(ImportModule(st, module, source, NameTail(source_name),
                                 node.source[Len(node.source)].location),
                    st, module, i, 0, source, IMPORT_MODULE_ITSELF_NAME,
                    IMPORT_MODULE_ITSELF_NAME)
        ELSE ImportSymbols(st, module, node, i, 1)

\* DefineImportedTypes::run, from expression i of the module on.
RECURSIVE Run(_, _, _, _)
Run(st, module, expressions, i) ==
    IF i > Len(expressions) THEN st
    ELSE Run(Import(st, module, expressions[i], i), module, expressions, i + 1)

\* DefineImportedTypes::run_all, from module k of the vector on.
RECURSIVE RunAllFrom(_, _, _)
RunAllFrom(st, modules, k) ==
    IF k > Len(modules) THEN st
    ELSE RunAllFrom(Run(st, modules[k].module_id, modules[k].expressions, 1),
                    modules, k + 1)

\* Diagnostics::has_errors (every diagnostic of this pass is an error).
HasErrors(diags) == \E d \in 1..Len(diags) : diags[d].id \in {"DuplicateSymbol", "InvalidSymbol"}

\* The source path of import i that names module id.
SourcePath(id, i) ==
    [k \in 1..Len(ModuleName(id)) |-> Identifier(ModuleName(id)[k], Loc(i, 0, k))]

\* The imported items a symbol list is drawn from: (name, alias).
Items ==
    {<<"self", "self">>, <<"self", "X">>, <<"Foo", "Foo">>, <<"Foo", "X">>,
     <<"_hid", "_hid">>, <<"_hid", "X">>, <<"Nope", "Nope">>}

\* The symbol list of import i that imports the items of `items`.
SymbolList(items, i) ==
    [j \in 1..Len(items) |->
        ImportSymbolNode(Identifier(items[j][1], Loc(i, j, "name")),
                         Identifier(items[j][2], Loc(i, j, "as")))]

\* The symbol lists of an import, by their items: short ones (none or one
\* item) and those of two items.
ShortLists == {<< >>} \cup {<< x >> : x \in Items}
PairLists == {<< x, y >> : x \in Items, y \in Items}

\* The files of module a: two imports with short lists, or one import with
\* a list of two; every import names module b or module c.
FilesOfA ==
    {<< >>}
    \cup {<< ImportNode(SourcePath(s, 1), SymbolList(l, 1)) >> :
              s \in {"b", "c"}, l \in ShortLists \cup PairLists}
    \cup {<< ImportNode(SourcePath(s, 1), SymbolList(l, 1)),
             ImportNode(SourcePath(t, 2), SymbolList(m, 2)) >> :
              s \in {"b", "c"}, t \in {"b", "c"}, l \in ShortLists, m \in ShortLists}

\* The files of module c: nothing, or an import of Foo from module b.
FilesOfC ==
    {<< >>, << ImportNode(SourcePath("b", 1), SymbolList(<< <<"Foo", "Foo">> >>, 1)) >>}

\* hir::Module
HirModule(id, expressions) == [module_id |-> id, expressions |-> expressions]

\* The database before the pass: module b defines the public class Foo and
\* the private method _hid; modules a and c define nothing yet.
DatabaseBefore ==
    [m \in ModuleIds |-> [n \in Names |->
        IF m = "b" /\ n = "Foo" THEN SymbolItem("class", "Foo", "b", FALSE)
        ELSE IF m = "b" /\ n = "_hid" THEN SymbolItem("method", "_hid", "b", TRUE)
        ELSE NoSymbol]]

NotRun == [ran |-> FALSE, result |-> TRUE, log |-> << >>]

ImportsIdle ==
    /\ db = DatabaseBefore
    /\ hir = << >>
    /\ diagnostics = << >>
    /\ pass = NotRun

ImportsInit ==
    /\ db = DatabaseBefore
    /\ \E fa \in FilesOfA, fc \in FilesOfC :
           hir \in {<< HirModule("a", fa), HirModule("c", fc) >>,
                    << HirModule("c", fc), HirModule("a", fa) >>}
    /\ diagnostics = << >>
    /\ pass = NotRun

\* DefineImportedTypes::run_all on the modules of hir.
DefineImportedTypes ==
    /\ ~pass.ran
    /\ LET st == RunAllFrom([db |-> db, diagnostics |-> diagnostics, log |-> << >>],
                            hir, 1)
       IN  /\ db' = st.db
           /\ diagnostics' = st.diagnostics
           /\ pass' = [ran |-> TRUE, result |-> ~HasErrors(st.diagnostics),
                       log |-> st.log]
    /\ UNCHANGED <<machine, env, config, hir, memory, socket>>

-----------------------------------------------------------------------------
(* MemoryMap::stack (rt/src/memory_map.rs), on a machine scaled down to    *)
(* addresses of AddressBits bits and pages of 2^PageBits bytes.            *)

\* usize has this many bits.
AddressBits == 8
\* A page has 2^PageBits bytes.
PageBits == 2
\* MemoryMap::stack is asked for 1..MaxPages pages.
MaxPages == 4

PageSize == 2 ^ PageBits
AddressSpace == 2 ^ AddressBits

\* a & b on usize
RECURSIVE BitAnd(_, _)
BitAnd(a, b) ==
    IF a = 0 \/ b = 0 THEN 0
    ELSE (a % 2) * (b % 2) + 2 * BitAnd(a \div 2, b \div 2)

\* !a on usize
BitNot(a) == AddressSpace - 1 - a

\* The sizes MemoryMap::stack is called with: the multiples of the page size.
StackSizes == {k * PageSize : k \in 1..MaxPages}

\* mmap_anonymous(null, alloc_size, ...): the addresses the kernel may
\* return, page-aligned and not null, with the mapping inside the address
\* space.
MmapAnonymous(alloc_size) ==
    {a \in 1..(AddressSpace - 1) : a % PageSize = 0 /\ a + alloc_size <= AddressSpace}

\* The pages (by their first address) of the `len` bytes from `addr` on.
PagesOf(addr, len) == {a \in addr..(addr + len - 1) : a % PageSize = 0}

\* munmap(addr, len) on the set of mapped pages.
Munmap(mapped, addr, len) == mapped \ PagesOf(addr, len)

\* The aligned start MemoryMap::stack computes from the mmap result.
AlignUpToMultiple(ptr, size) == ((ptr + size - 1) \div size) * size

AlignedStart(ptr, size) ==
    BitAnd((ptr + (size - 1)) % AddressSpace, BitNot(size - 1))

\* MemoryMap::stack(size) when mmap returned ptr: the MemoryMap, and the
\* pages that are mapped when it returns.
MemoryMapStack(size, ptr) ==
    LET alloc_size == (size * 2) % AddressSpace
        start == AlignedStart(ptr, size)
        end == start + size
        unused_before == start - ptr
        unused_after == (ptr + alloc_size) - end
        all == PagesOf(ptr, alloc_size)
        m1 == IF unused_before > 0 THEN Munmap(all, ptr, unused_before) ELSE all
        m2 == IF unused_after > 0 THEN Munmap(m1, end, unused_after) ELSE m1
    IN  [called |-> TRUE, size |-> size, mmap |-> ptr,
         map |-> [ptr |-> start, len |-> size], mapped |-> m2]

NotMapped(size) ==
    [called |-> FALSE, size |-> size, mmap |-> 0, map |-> [ptr |-> 0, len |-> 0],
     mapped |-> {}]

MemoryIdle == memory = NotMapped(PageSize)

MemoryInit == \E size \in StackSizes : memory = NotMapped(size)

\* A call of MemoryMap::stack(memory.size).
Stack ==
    /\ ~memory.called
    /\ \E ptr \in MmapAnonymous((memory.size * 2) % AddressSpace) :
           memory' = MemoryMapStack(memory.size, ptr)
    /\ UNCHANGED <<machine, env, config, db, hir, diagnostics, pass, socket>>

-----------------------------------------------------------------------------
(* Socket::register and Socket::deregister (rt/src/socket.rs), for one     *)
(* socket of one process.  The process runs on one thread at a time; once  *)
(* the socket is with a poller the process may be rescheduled on another   *)
(* thread.  usize is scaled down to UsizeBits bits.                        *)

NOT_REGISTERED == -1
I8 == 8
UsizeBits == 16
MaxCalls == 4

Threads == {1, 2}

\* `as i8` of a usize: the low eight bits, read as two's complement.
AsI8(n) ==
    LET low == n % 2 ^ I8
    IN  IF low >= 2 ^ (I8 - 1) THEN low - 2 ^ I8 ELSE low

\* `as usize` of an i8: sign extension.
AsUsize(i) == IF i < 0 THEN 2 ^ UsizeBits + i ELSE i

\* The values of NETPOLL_THREADS tried, before Config::verify.
NetpollChoices == {1, 2, 3, MAX_NETPOLL_THREADS, 200}

\* state.network_pollers[i] is inside the vector.
Indexes(s, i) == i \in 0..(s.pollers - 1)

\* The log of the socket: what was done, by which thread, with which poller,
\* and the value of `registered` at that moment.
SocketLogged(s, op, t, id) ==
    [s EXCEPT !.log = Append(@, [op |-> op, t |-> t, id |-> id, was |-> s.registered])]

\* Indexing network_pollers out of range panics.
IndexPanic(s, t, i) == [SocketLogged(s, "panic", t, i) EXCEPT !.fault = TRUE]

\* NetworkPoller::add, modify and delete of the socket's file descriptor.
\* After add and modify the poller may reschedule the process at any time.
PollerAdd(s, t, id) ==
    [SocketLogged(s, "add", t, id) EXCEPT !.poll[id] = @ + 1, !.runner = 0]

PollerModify(s, t, id) == [SocketLogged(s, "modify", t, id) EXCEPT !.runner = 0]

PollerDelete(s, t, id) ==
    [SocketLogged(s, "delete", t, id) EXCEPT !.poll[id] = IF @ > 0 THEN @ - 1 ELSE 0]

\* self.registered.store(value)
Store(s, t, op, value) == [SocketLogged(s, op, t, value) EXCEPT !.registered = value]

\* The two statements of register for a socket that is not registered, in
\* their order: the store of the poller id, then the poller's add.
RegisterStepAddFirst(s, t, id, step) ==
    IF step = 1 THEN PollerAdd(s, t, id) ELSE Store(s, t, "store", AsI8(id))

RegisterStep(s, t, id, step) ==
    IF step = 1 THEN Store(s, t, "store", AsI8(id)) ELSE PollerAdd(s, t, id)

\* Socket::deregister
DeregisterKeepingRegistered(s, t) ==
    LET poller_id == AsUsize(s.registered)
    IN  IF ~Indexes(s, poller_id) THEN IndexPanic(s, t, poller_id)
        ELSE PollerDelete(s, t, poller_id)

Deregister(s, t) ==
    LET poller_id == AsUsize(s.registered)
    IN  IF ~Indexes(s, poller_id) THEN IndexPanic(s, t, poller_id)
        ELSE Store(PollerDelete(s, t, poller_id), t, "clear", NOT_REGISTERED)

\* A socket nobody registered, with `pollers` network pollers; thread t polls
\* with the poller ids[t], and the process runs on thread `runner`.
NewSocket(pollers, ids, runner) ==
    [pollers |-> pollers, registered |-> NOT_REGISTERED,
     poll |-> [i \in 0..(pollers - 1) |-> 0], thread_poller_id |-> ids,
     runner |-> runner, pc |-> [t \in Threads |-> "idle"], calls |-> 0,
     fault |-> FALSE, log |-> << >>]

SocketIdle == socket = NewSocket(1, [t \in Threads |-> 0], 1)

SocketInit ==
    \E raw \in NetpollChoices, runner \in Threads :
        LET pollers == Verify([ConfigNew(1) EXCEPT !.netpoll_threads = raw]).netpoll_threads
        IN  \E ids \in [Threads -> {0, 1, pollers - 1} \cap 0..(pollers - 1)] :
                socket = NewSocket(pollers, ids, runner)

\* Thread t, running the process, calls register up to the first of the two
\* statements for an unregistered socket, or all of it for a registered one.
SocketRegister(t) ==
    /\ ~socket.fault
    /\ socket.runner = t
    /\ socket.pc[t] = "idle"
    /\ socket.calls < MaxCalls
    /\ LET existing_id == socket.registered
           thread_poller_id == socket.thread_poller_id[t]
           s == [socket EXCEPT !.calls = @ + 1]
       IN  socket' =
               IF existing_id = NOT_REGISTERED
               THEN IF ~Indexes(s, thread_poller_id)
                    THEN IndexPanic(s, t, thread_poller_id)
                    ELSE [RegisterStep(s, t, thread_poller_id, 1) EXCEPT
                              !.pc[t] = "second"]
               ELSE IF ~Indexes(s, AsUsize(existing_id))
                    THEN IndexPanic(s, t, AsUsize(existing_id))
                    ELSE PollerModify(s, t, AsUsize(existing_id))
    /\ UNCHANGED <<machine, env, config, db, hir, diagnostics, pass, memory>>

\* The second statement of register for an unregistered socket.
SocketRegisterSecond(t) ==
    /\ ~socket.fault
    /\ socket.pc[t] = "second"
    /\ socket' = [RegisterStep(socket, t, socket.thread_poller_id[t], 2) EXCEPT
                      !.pc[t] = "idle"]
    /\ UNCHANGED <<machine, env, config, db, hir, diagnostics, pass, memory>>

\* Thread t, running the process, calls deregister.
SocketDeregister(t) ==
    /\ ~socket.fault
    /\ socket.runner = t
    /\ socket.pc[t] = "idle"
    /\ socket.calls < MaxCalls
    /\ socket' = Deregister([socket EXCEPT !.calls = @ + 1], t)
    /\ UNCHANGED <<machine, env, config, db, hir, diagnostics, pass, memory>>

\* A poller, or a timeout, reschedules the process, and thread t runs it.
SocketWake(t) ==
    /\ ~socket.fault
    /\ socket.runner = 0
    /\ socket.pc[t] = "idle"
    /\ socket' = [socket EXCEPT !.runner = t]
    /\ UNCHANGED <<machine, env, config, db, hir, diagnostics, pass, memory>>

\* The machine at rest, for the specifications of the other components.
MachineIdle ==
    /\ MachineInit
    /\ input = 0
    /\ Top(ctxs[MainPid]).code = MDiv

Init == MachineInit /\ ConfigIdle /\ ImportsIdle /\ MemoryIdle /\ SocketIdle

Spec == Init /\ [][Next]_vars

ConfigNext == FromEnv

ConfigStart == MachineIdle /\ ConfigInit /\ ImportsIdle /\ MemoryIdle /\ SocketIdle

ConfigSpec == ConfigStart /\ [][ConfigNext]_vars

ImportsNext == DefineImportedTypes

ImportsStart == MachineIdle /\ ConfigIdle /\ ImportsInit /\ MemoryIdle /\ SocketIdle

ImportsSpec == ImportsStart /\ [][ImportsNext]_vars

MemoryNext == Stack

MemoryStart == MachineIdle /\ ConfigIdle /\ ImportsIdle /\ MemoryInit /\ SocketIdle

MemorySpec == MemoryStart /\ [][MemoryNext]_vars

SocketNext ==
    \/ \E t \in Threads : SocketRegister(t)
    \/ \E t \in Threads : SocketRegisterSecond(t)
    \/ \E t \in Threads : SocketDeregister(t)
    \/ \E t \in Threads : SocketWake(t)

SocketStart == MachineIdle /\ ConfigIdle /\ ImportsIdle /\ MemoryIdle /\ SocketInit

SocketSpec == SocketStart /\ [][SocketNext]_vars

-----------------------------------------------------------------------------
(* Properties.                                                             *)

\* The workers running process p.
RunnersOf(p) == {w \in Workers : running[w] = p}

\* The number of places that hold p for a worker: workers running it, entries
\* in the pools' queues, requests in the GC pool, the suspension list.
Holders(p) ==
    Cardinality(RunnersOf(p)) + queue[PRIMARY_POOL][p] + queue[SECONDARY_POOL][p]
        + Len(gcq[p]) + (IF parked[p] # "no" THEN 1 ELSE 0)

\* C1: in every reachable state at most one worker executes the interpreter on
\* a process, and a process that a worker runs is neither queued, nor waiting
\* for a collection, nor suspended; a process is never queued twice.
C1_OneWorkerPerProcess == \A p \in Procs : Holders(p) <= 1

\* C1 witness: a sender that is still running has woken the waiting main
\* process, which now sits in the queue of its pool.
C1_Witness ==
    /\ last.op = "ProcessSendMessage"
    /\ running[last.w] = last.p
    /\ queue[PRIMARY_POOL][MainPid] = 1
    /\ waiting[MainPid]
    /\ \E w \in Workers : running[w] \notin {0, MainPid, last.p}

\* The messages, in order, that receiver r took from sender s, and the
\* messages, in order, that s sent to r.
TakenFrom(r, s) ==
    LET FromS(e) == e[1] = s
        taken == SelectSeq(hist.rcvd[r], FromS)
    IN  [i \in 1..Len(taken) |-> taken[i][2]]

SentTo(s, r) ==
    LET ToR(e) == e[1] = r
        sent == SelectSeq(hist.sent[s], ToR)
    IN  [i \in 1..Len(sent) |-> sent[i][2]]

IsPrefix(a, b) == Len(a) <= Len(b) /\ \A i \in 1..Len(a) : a[i] = b[i]

\* C2: the messages a receiver has obtained from one sender are, in order, the
\* first messages that sender sent to it.
C2_PerSenderFifo ==
    \A r \in Procs, s \in Procs : IsPrefix(TakenFrom(r, s), SentTo(s, r))

\* C2 witness: main has received both messages of one sender with the message
\* of the other sender in between.
C2_Witness ==
    /\ Len(hist.rcvd[MainPid]) = 3
    /\ hist.rcvd[MainPid][1][1] = hist.rcvd[MainPid][3][1]
    /\ hist.rcvd[MainPid][2][1] # hist.rcvd[MainPid][1][1]
    /\ hist.rcvd[MainPid][1][2] = 11
    /\ hist.rcvd[MainPid][3][2] = 12

\* The interpreter has just returned to the worker and left process last.p
\* alive.
HandedOff == last.ctl \in {"gc", "requeue", "release", "moved"}

\* C3: whenever the interpreter returns to the worker leaving the process
\* alive, the current context stores the index of the instruction to execute
\* next (the receive itself, the instruction after a suspend or MoveToPool, the
\* caller's instruction after the call for Return, 0 for TailCall), and the
\* contexts of a process change only in steps of a worker that runs it.
C3_ResumptionPoint ==
    /\ [](HandedOff =>
            /\ Top(ctxs[last.p]).instruction_index = last.exp
            /\ last.op = "ProcessReceiveMessage" => last.exp = last.at
            /\ last.op \in {"ProcessSuspendCurrent", "MoveToPool"} =>
                   last.exp = last.at + 1
            /\ last.op = "TailCall" => last.exp = 0)
    /\ [][\A p \in Procs :
              (life[p] # "unborn" /\ RunnersOf(p) = {}) => ctxs'[p] = ctxs[p]]_vars

\* C3 witness: a Return exhausted the reductions and the process was queued
\* with its caller's next instruction stored.
C3_Witness ==
    /\ last.op = "Return"
    /\ last.ctl = "requeue"
    /\ Len(last.stack) > 1
    /\ Top(ctxs[last.p]).instruction_index = Top(last.stack).resume
    /\ Top(last.stack).resume > 0

\* The context that executed the last instruction, as it was before, and the
\* process's stack as it is now.
Before == Top(last.stack)
Now == ctxs[last.p]

\* The catch table entry of the context that covers the last instruction
\* (0: none).
CoveringEntry == FirstMatch(Unit(Before.code).catch_table, last.at + 1)

ZeroDivisor == IsZeroInteger(Before.register[last.a[3]])

\* C4: IntegerDiv by the integer zero under a covering catch entry throws: the
\* message is written to the entry's register, execution continues at the
\* entry's jump_to in the same context, and the process does not panic.
C4_DivisionByZeroIsThrown ==
    (last.op = "IntegerDiv" /\ ZeroDivisor /\ CoveringEntry # 0) =>
        LET entry == Unit(Before.code).catch_table[CoveringEntry]
        IN  /\ last.ctl = "cont"
            /\ panics[last.p] = 0
            /\ Len(Now) = Len(last.stack)
            /\ index[last.p] = entry.jump_to
            /\ Top(Now).register[entry.register] = StrV(DivZeroMessage)

\* C5: IntegerMod by the integer zero fails with a thrown value: the process
\* does not panic, and under a covering catch entry execution continues at the
\* entry's jump_to with the thrown string in the entry's register.
C5_ModuloByZeroIsThrown ==
    (last.op = "IntegerMod" /\ ZeroDivisor) =>
        /\ last.ctl = "cont"
        /\ panics[last.p] = 0
        /\ CoveringEntry # 0 =>
               LET entry == Unit(Before.code).catch_table[CoveringEntry]
               IN  /\ index[last.p] = entry.jump_to
                   /\ Top(Now).register[entry.register].k = "str"

\* The index a throw finds stored in the context at position i of the stack
\* before the Throw: the top context stores the index after the Throw.
StoredAtThrow(i) ==
    IF i = Len(last.stack) THEN last.at + 1 ELSE last.stack[i].instruction_index

\* The positions of the contexts with a catch entry covering the throw.
Catching ==
    {i \in 1..Len(last.stack) :
         FirstMatch(Unit(last.stack[i].code).catch_table, StoredAtThrow(i)) # 0}

\* The deferred blocks of the contexts above position f, the topmost first.
RECURSIVE CarriedFrom(_, _)
CarriedFrom(i, f) ==
    IF i <= f THEN << >>
    ELSE last.stack[i].deferred_blocks \o CarriedFrom(i - 1, f)

SameContext(c, d) == [c EXCEPT !.owed = 0] = [d EXCEPT !.owed = 0]

\* C6: after a Throw is caught at frame F (the nearest context with a covering
\* catch entry), F is the top of the stack, the contexts below it are as they
\* were, the thrown value is in the entry's register, execution continues at
\* the entry's jump_to, and F's deferred queue is its own followed by the
\* deferred blocks of every popped context.
C6_CaughtAtFrame ==
    (last.op = "Throw" /\ Catching # {}) =>
        LET f == CHOOSE i \in Catching : \A j \in Catching : j <= i
            table == Unit(last.stack[f].code).catch_table
            entry == table[FirstMatch(table, StoredAtThrow(f))]
        IN  /\ last.ctl = "cont"
            /\ Len(Now) = f
            /\ \A i \in 1..(f - 1) : SameContext(Now[i], last.stack[i])
            /\ Now[f].code = last.stack[f].code
            /\ index[last.p] = entry.jump_to
            /\ Now[f].register[entry.register] = Before.register[last.a[1]]
            /\ Now[f].deferred_blocks =
                   last.stack[f].deferred_blocks \o CarriedFrom(Len(last.stack), f)

\* C6 witness: a throw was caught two contexts below the throwing one, and the
\* catching context took over a deferred block of a popped context.
C6_Witness ==
    /\ last.op = "Throw"
    /\ Catching # {}
    /\ Len(Now) = Len(last.stack) - 2
    /\ last.stack[Len(Now)].deferred_blocks = << >>
    /\ Top(Now).deferred_blocks # << >>

\* A Return in a context that is not the root, has no pending deferred block
\* and has a return register.
PlainReturn ==
    /\ last.op = "Return"
    /\ Len(last.stack) > 1
    /\ Before.deferred_blocks = << >>
    /\ Before.return_register # -1

ReturnedValue == IF Len(last.a) > 1 THEN Before.register[last.a[2]] ELSE Nil

\* After the Return the context is popped, the caller's register r holds the
\* returned value and execution continues at the caller's instruction after
\* the call.
ReturnedToCaller ==
    /\ Len(Now) = Len(last.stack) - 1
    /\ Top(Now).code = last.stack[Len(last.stack) - 1].code
    /\ Top(Now).register[Before.return_register] = ReturnedValue
    /\ index[last.p] = Before.resume
    /\ Top(Now).instruction_index = Before.resume

\* C7 as stated: every Return in a non-root context without pending deferred
\* blocks and with a return register pops exactly that context, writes the
\* value to the caller's register and continues after the call.
C7_ReturnPopsOne == PlainReturn => ReturnedToCaller

\* C7 amended: the same for a Return that is not a block return.
C7_PlainReturnPopsOne == (PlainReturn /\ last.a[1] = 0) => ReturnedToCaller

\* C7 witness: a Return without a value register put nil in the caller's
\* return register.
C7_Witness ==
    /\ PlainReturn
    /\ last.a = << 0 >>
    /\ ReturnedToCaller
    /\ Top(Now).register[Before.return_register] = Nil

\* C8: a Return in a context with pending deferred blocks is rewound with one
\* context per block on top of it and an empty queue, and when the Return
\* completes every deferred block registered with the context has run.
C8_DeferredBlocksRunOnce ==
    /\ (last.op = "Return" /\ Before.deferred_blocks # << >>) =>
           /\ last.note = "rewind"
           /\ Len(Now) = Len(last.stack) + Len(Before.deferred_blocks)
           /\ Now[Len(last.stack)].deferred_blocks = << >>
           /\ Now[Len(last.stack)].instruction_index = last.at
           /\ \A i \in 1..Len(Before.deferred_blocks) :
                  Now[Len(last.stack) + i].code = Before.deferred_blocks[i].s
    /\ (last.op = "Return" /\ last.note \in {"pop", "root returned"}) =>
           Before.owed = 0

\* The locals a TailCall with only positional arguments sets from its
\* argument registers.
TailCallLocals ==
    [l \in Locals |-> IF l < last.a[1] THEN Before.register[last.a[3 + l]] ELSE Undef]

\* C9: after a TailCall with a valid number of arguments the stack depth is
\* the same, the context is the same code unit at instruction_index 0, every
\* register is cleared and the locals are the argument values the registers
\* held before, every other local cleared.
C9_TailCallReusesContext ==
    (/\ last.op = "TailCall"
     /\ last.a[2] = 0
     /\ ValidateNumberOfArguments(Before.code, last.a[1], last.a[2]).ok) =>
        /\ Len(Now) = Len(last.stack)
        /\ Top(Now).code = Before.code
        /\ Top(Now).instruction_index = 0
        /\ index[last.p] = 0
        /\ \A r \in Regs : Top(Now).register[r] = Undef
        /\ Top(Now).locals = TailCallLocals

\* C9 witness: a TailCall passed a register's value as local 0 and cleared a
\* local that was set.
C9_Witness ==
    /\ last.op = "TailCall"
    /\ last.a[1] = 1
    /\ Before.register[last.a[3]] # Undef
    /\ Top(Now).locals[0] = Before.register[last.a[3]]
    /\ Before.locals[1] # Undef
    /\ Top(Now).locals[1] = Undef

\* The VM has terminated: the pools were told to terminate and every worker
\* has returned from the process it ran.
Terminated == terminated /\ \A w \in Workers : running[w] = 0

\* C10 as stated: at termination the exit status is 0 exactly when no process
\* panicked and no Exit with a status other than 0 ran.
C10_StatusZeroIffNoPanicNoExit ==
    Terminated => (exitStatus = 0 <=> (~hist.panicked /\ ~hist.exitNZ))

\* C10 amended: at termination the exit status is 0 when the built-in panic
\* routine did not run and no Exit with a status other than 0 ran, and when no
\* Exit ran at all the status is 0 exactly when the built-in panic routine did
\* not run; a panic that a registered handler handled does not change the
\* status.
C10_StatusZeroUnlessBuiltinPanicOrExit ==
    Terminated =>
        /\ (~hist.builtin /\ ~hist.exitNZ) => exitStatus = 0
        /\ ~hist.exitRan => (exitStatus = 0 <=> ~hist.builtin)

\* C10 witness: the VM terminated with status 0 after a process panicked and
\* its handler returned.
C10_Witness ==
    /\ Terminated
    /\ hist.handled
    /\ ~hist.builtin
    /\ ~hist.exitNZ
    /\ exitStatus = 0

\* The last step was a panic of process last.p (run() returned an error or
\* the host panicked inside it).
Panicked == last.note = "err"

\* C11: when a process panics and neither the process nor the VM has a panic
\* handler, the built-in display routine runs, the exit status is 1 and every
\* pool has been told to terminate.
C11_UnhandledPanicTerminatesVm ==
    (Panicked /\ handler[last.p] = Undef /\ defaultHandler = Undef) =>
        /\ last.ctl = "builtin"
        /\ hist.builtin
        /\ exitStatus = 1
        /\ terminated

\* C11 witness: a process without any handler executed Panic and the VM is
\* terminated with status 1.
C11_Witness ==
    /\ Panicked
    /\ last.op = "Panic"
    /\ handler[last.p] = Undef
    /\ defaultHandler = Undef
    /\ exitStatus = 1
    /\ terminated

\* The panic handler's context was on the stack of the process when the last
\* step was taken: the handler was running.
HandlerRunning == \E i \in 1..Len(last.stack) : last.stack[i].terminate_upon_return

\* C12: when the effective panic handler itself panics, the handler is not
\* entered again: the built-in display routine runs and the VM terminates with
\* exit status 1.
C12_HandlerPanicEndsHandling ==
    (Panicked /\ HandlerRunning) =>
        /\ last.ctl = "builtin"
        /\ exitStatus = 1
        /\ terminated

\* Process p panicked in this step, and process p finished in this step.
PanicsNow(p) == panics'[p] # panics[p]
FinishesNow(p) == life[p] = "alive" /\ life'[p] = "finished"

\* This step left the VM and every process other than p as they were.
OnlyTouches(p) ==
    /\ terminated' = terminated
    /\ exitStatus' = exitStatus
    /\ \A q \in Procs \ {p} :
           /\ life'[q] = life[q]
           /\ ctxs'[q] = ctxs[q]
           /\ \A w \in Workers : running[w] = q => running'[w] = q

\* C13 as stated: a panic of a process other than the main process leaves the
\* VM and the other processes as they were.
C13_ChildPanicEndsOnlyTheChild ==
    [][\A p \in Procs \ {MainPid} : PanicsNow(p) => OnlyTouches(p)]_vars

\* C13 amended: a panic of a process other than the main process that a
\* registered handler takes leaves the VM and the other processes as they
\* were, and so does the end of that process when the handler returns; a panic
\* that reaches the built-in routine terminates the VM with status 1 whichever
\* process panicked.
C13_HandledChildPanicEndsOnlyTheChild ==
    [][\A p \in Procs :
           /\ (p # MainPid /\ PanicsNow(p) /\ last'.ctl = "handler") =>
                  (OnlyTouches(p) /\ life'[p] = "alive")
           /\ (p # MainPid /\ FinishesNow(p)) => OnlyTouches(p)
           /\ (PanicsNow(p) /\ last'.ctl = "builtin") =>
                  (terminated' /\ exitStatus' = 1)]_vars

\* C13 witness: a process other than the main process panicked, its handler
\* ran and returned, and the main process is still running in a VM that is
\* not terminated.
C13_Witness ==
    \E p \in Procs \ {MainPid} :
        /\ panics[p] > 0
        /\ life[p] = "finished"
        /\ life[MainPid] = "alive"
        /\ \E w \in Workers : running[w] = MainPid
        /\ ~terminated

\* The last step was a Throw that no context of the process catches.
UncaughtThrow == last.op = "Throw" /\ Catching = {}

\* The panic of the last step was raised with message text: the handler that
\* took it, if any, has the text as its argument.
PanickedWith(text) ==
    /\ Panicked
    /\ panics[last.p] > 0
    /\ last.msg = text
    /\ last.ctl = "handler" =>
           \E i \in 1..Len(Now) :
               Now[i].terminate_upon_return /\ Now[i].locals[0] = StrV(text)

\* C14 as stated: a thrown value that no frame of process P catches becomes a
\* panic of P with the message "uncaught throw in process P".
C14_UncaughtThrowPanics ==
    UncaughtThrow => PanickedWith("uncaught throw in process " \o ToString(last.p))

\* C14 amended: the same with the message "A thrown value reached the
\* top-level in process P".
C14_UncaughtThrowPanicsWithTopLevelMessage ==
    UncaughtThrow =>
        PanickedWith("A thrown value reached the top-level in process "
                         \o ToString(last.p))

\* C14 witness: a throw two contexts above the root reached the top level and
\* the process panicked with the message naming it.
C14_Witness ==
    /\ UncaughtThrow
    /\ Len(last.stack) >= 3
    /\ Panicked
    /\ last.msg = "A thrown value reached the top-level in process 1"

\* Worker w executes ProcessReceiveMessage for a process whose mailbox is
\* empty, and the target register of that receive after the step.
ReceivesNothing(w) == ProcessReceiveMessage(w) /\ mailbox[running[w]] = << >>
ReceiveTarget(w) == Top(ctxs'[running[w]]).register[Instr(running[w]).a[1]]

\* The receive of worker w produced nil and the process goes on with the next
\* instruction, its waiting flag cleared.
ContinuesWithNil(w) ==
    LET p == running[w]
    IN  /\ ReceiveTarget(w) = Nil
        /\ ~waiting'[p]
        /\ index'[p] = index[p] + 1
        /\ phase'[p] = "fetch"
        /\ running'[w] = p
        /\ parked'[p] = "no"

\* C15: a receive on an empty mailbox by a process that was waiting for a
\* message (its timeout expired) puts nil in the target register, clears the
\* waiting flag and continues with the next instruction; a receive on an empty
\* mailbox by a process that was not waiting produces nothing and goes on to
\* suspend the process.
C15_TimedOutReceiveYieldsNil ==
    [][\A w \in Workers :
           ReceivesNothing(w) =>
               IF waiting[running[w]] THEN ContinuesWithNil(w)
               ELSE /\ phase'[running[w]] = "wait"
                    /\ ctxs' = ctxs
                    /\ index' = index]_vars

\* C15 witness: the first receive of the main process timed out and left nil
\* in its register, and the second receive, on a mailbox still empty, has
\* suspended the process again.
C15_Witness ==
    /\ Top(ctxs[MainPid]).code = MMsg
    /\ Top(ctxs[MainPid]).instruction_index = 7
    /\ Top(ctxs[MainPid]).register[0] = Nil
    /\ hist.rcvd[MainPid] = << >>
    /\ parked[MainPid] = "msgT"
    /\ waiting[MainPid]

\* C16: a receive with a timeout of 0 on an empty mailbox, by a process that
\* is not waiting, puts nil in the target register at once and execution
\* continues.
C16_ZeroTimeoutPolls ==
    [][\A w \in Workers :
           (/\ ReceivesNothing(w)
            /\ ~waiting[running[w]]
            /\ Top(ctxs[running[w]]).register[Instr(running[w]).a[2]] = IntV(0)) =>
               ContinuesWithNil(w)]_vars

\* The last step ended in a safepoint that found no GC flag set.
PlainSafepoint == last.ctl \in {"continue", "requeue"}

\* The safepoints without a GC flag that process last.p has passed in the
\* interpreter call it is in (or was in until the last step).
SafepointsPassed == hist.safepoints[last.p]

\* C17 as stated: at a safepoint without a GC flag the reduction counter is
\* decremented and the process is re-queued when the decrement brings it to
\* zero, which is the safepoint number ReductionBudget of the call.
C17_RequeuedWhenCounterReachesZero ==
    PlainSafepoint =>
        /\ last.ctl = "requeue" <=> reductions[last.p] = 0
        /\ last.ctl = "requeue" => SafepointsPassed = ReductionBudget

\* C17 amended: a safepoint without a GC flag that finds the counter above
\* zero decrements it and the interpreter goes on; one that finds it at zero
\* re-queues the process on its pool and the interpreter returns, which is the
\* safepoint number ReductionBudget + 1 of the call.
C17_RequeuedWhenCounterIsZero ==
    PlainSafepoint =>
        /\ last.ctl = "requeue" <=> SafepointsPassed = ReductionBudget + 1
        /\ last.ctl = "continue" =>
               /\ reductions[last.p] = ReductionBudget - SafepointsPassed
               /\ running[last.w] = last.p
        /\ last.ctl = "requeue" =>
               /\ reductions[last.p] = 0
               /\ queue[poolId[last.p]][last.p] = 1
               /\ RunnersOf(last.p) = {}

\* C17 witness: a Return was the safepoint after the last reduction and the
\* process was re-queued.
C17_Witness ==
    /\ last.op = "Return"
    /\ last.ctl = "requeue"
    /\ SafepointsPassed = ReductionBudget + 1
    /\ queue[poolId[last.p]][last.p] = 1

\* A collection of process p's heap or mailbox has been requested and not
\* been performed yet.
CollectionPending(p) == gcq[p] # << >> /\ Head(gcq[p]) \in {"heap", "mailbox"}

\* Process p is neither run by a worker nor in the queue of a pool.
OffTheWorkers(p) ==
    RunnersOf(p) = {} /\ \A pool \in Pools : queue[pool][p] = 0

\* C18: a safepoint that finds a GC flag of the process set schedules exactly
\* one request, for the young generation if that flag is set and for the
\* mailbox otherwise, and the interpreter returns without re-queuing the
\* process; a safepoint passes only with both flags clear; and as long as the
\* request has not been performed the process is neither run nor queued.
C18_GcRequestBeforeResume ==
    /\ last.ctl = "gc" =>
           /\ gcYoung[last.p] \/ gcMailbox[last.p]
           /\ gcq[last.p] = << IF gcYoung[last.p] THEN "heap" ELSE "mailbox" >>
           /\ OffTheWorkers(last.p)
    /\ PlainSafepoint => (~gcYoung[last.p] /\ ~gcMailbox[last.p])
    /\ \A p \in Procs :
           CollectionPending(p) => (Len(gcq[p]) = 1 /\ OffTheWorkers(p))

\* C18 witness: a safepoint found both flags set and requested the collection
\* of the young generation.
C18_Witness ==
    /\ last.ctl = "gc"
    /\ gcYoung[last.p]
    /\ gcMailbox[last.p]
    /\ gcq[last.p] = << "heap" >>

\* The pool MoveToPool of worker w asks for is one of the pools.
ValidPool(w) ==
    LET pool_ptr == Top(ctxs[running[w]]).register[Instr(running[w]).a[2]]
    IN  pool_ptr.k = "int" /\ pool_ptr.n \in Pools

AcceptsOtherWork(w) == \A q \in Procs : pinned[q] # w

\* C20: ProcessPinThread by a process that is not pinned pins it to the
\* worker that runs it, and ProcessUnpinThread after it leaves the process
\* unpinned, as before the two, with its worker accepting other work again.
C20_PinUnpinRestoresAffinity ==
    [][\A w \in Workers :
           /\ (ProcessPinThread(w) /\ pinned[running[w]] = 0) =>
                  pinned' = [pinned EXCEPT ![running[w]] = w]
           /\ (ProcessUnpinThread(w) /\ pinned[running[w]] = w) =>
                  /\ pinned' = [pinned EXCEPT ![running[w]] = 0]
                  /\ AcceptsOtherWork(w)']_vars

\* C20 witness: a process that was pinned by ProcessPinThread has executed
\* ProcessUnpinThread (which reported that it was pinned) and is unpinned.
C20_Witness ==
    /\ last.op = "ProcessUnpinThread"
    /\ Top(Now).register[last.a[1]] = TrueV
    /\ pinned[last.p] = 0
    /\ AcceptsOtherWork(last.w)

\* The call instruction worker w is about to execute supplies `arguments`
\* arguments, which the arity of the code unit `unit` does not admit.
ArityMismatch(unit, arguments) ==
    LET code == Unit(unit)
    IN  \/ arguments < code.required
        \/ (~code.rest /\ arguments > code.required + code.optional)

\* The step of worker w fails with the arity message of `unit` for
\* `arguments` supplied arguments.
FailsWithArityError(w, unit, arguments) ==
    /\ panics'[running[w]] = panics[running[w]] + 1
    /\ last'.ctl = "builtin"
    /\ last'.msg = Unit(unit).name \o " takes "
                       \o LabelForNumberOfArguments(unit) \o " arguments but "
                       \o ToString(arguments) \o " were supplied"

\* The block a RunBlock or RunBlockWithReceiver of worker w calls.
CalledBlock(w) == Top(ctxs[running[w]]).register[Instr(running[w]).a[2]]

\* C21: a RunBlock, RunBlockWithReceiver or TailCall whose positional plus
\* keyword argument count does not satisfy the callee's arity fails with
\* "<name> takes N arguments but M were supplied" (M the supplied count), and
\* for RunBlock and RunBlockWithReceiver the stack of the process is left as
\* it was: no context is pushed.
C21_ArityMismatchFails ==
    [][\A w \in Workers :
           LET p == running[w]
               a == Instr(p).a
           IN  /\ (/\ RunBlock(w)
                   /\ CalledBlock(w).k = "blk"
                   /\ ArityMismatch(CalledBlock(w).s, a[3] + a[4])) =>
                      /\ FailsWithArityError(w, CalledBlock(w).s, a[3] + a[4])
                      /\ ctxs'[p] = ctxs[p]
               /\ (/\ RunBlockWithReceiver(w)
                   /\ CalledBlock(w).k = "blk"
                   /\ ArityMismatch(CalledBlock(w).s, a[4] + a[5])) =>
                      /\ FailsWithArityError(w, CalledBlock(w).s, a[4] + a[5])
                      /\ ctxs'[p] = ctxs[p]
               /\ (/\ TailCall(w)
                   /\ ArityMismatch(Top(ctxs[p]).code, a[1] + a[2])) =>
                      /\ FailsWithArityError(w, Top(ctxs[p]).code, a[1] + a[2])
                      /\ Len(ctxs'[p]) = Len(ctxs[p])]_vars

\* C21 witness: a TailCall with one positional and one keyword argument in a
\* code unit that takes one argument has failed with the arity message.
C21_Witness ==
    /\ last.op = "TailCall"
    /\ last.a[1] = 1
    /\ last.a[2] = 1
    /\ last.msg = "badtail takes 1 arguments but 2 were supplied"
    /\ Len(Now) = Len(last.stack)
    /\ life[last.p] = "dead"

-----------------------------------------------------------------------------
(* Properties of Config::from_env, under ConfigSpec.                       *)

\* The fields of Config with the variable and the width of each.
Fields ==
    {[name |-> "process_threads", key |-> "PROCESS_THREADS", bits |-> U16],
     [name |-> "backup_threads", key |-> "BACKUP_THREADS", bits |-> U16],
     [name |-> "reductions", key |-> "REDUCTIONS", bits |-> U16],
     [name |-> "netpoll_threads", key |-> "NETPOLL_THREADS", bits |-> U8]}

\* The number a run of decimal digits denotes.
RECURSIVE Denoted(_)
Denoted(digits) ==
    IF digits = << >> THEN 0
    ELSE DigitValue(digits[Len(digits)])
             + 10 * Denoted(SubSeq(digits, 1, Len(digits) - 1))

\* The digits of a raw value: what follows its optional "+".
DigitsOf(raw) == IF raw # << >> /\ Head(raw) = "+" THEN Tail(raw) ELSE raw

\* The variable is set to a numeral that an unsigned integer of `bits` bits
\* can hold.
Parsable(var, bits) ==
    /\ var.set
    /\ DigitsOf(var.raw) # << >>
    /\ \A i \in 1..Len(DigitsOf(var.raw)) : DigitValue(DigitsOf(var.raw)[i]) >= 0
    /\ Denoted(DigitsOf(var.raw)) <= 2 ^ bits - 1

\* C22: a variable that is unset, not parsable as the unsigned type of its
\* field, or 0 leaves the field at the default Config::new gave it; a
\* parsable positive value replaces the default.
C22_EnvSetsPositiveValuesOnly ==
    config.built =>
        \A f \in Fields :
            LET var == env[f.key]
            IN  IF Parsable(var, f.bits) /\ Denoted(DigitsOf(var.raw)) > 0
                THEN config.read[f.name] = Denoted(DigitsOf(var.raw))
                ELSE config.read[f.name] = config.new[f.name]

\* C22 witness: from_env has read a positive value, "0", a value too large
\* for the u8 field, and an unset variable: the first replaced the default,
\* the others left it.
C22_Witness ==
    /\ config.built
    /\ config.cpu_count = 2
    /\ env["PROCESS_THREADS"] = Raw(<<"4">>)
    /\ config.read.process_threads = 4
    /\ env["REDUCTIONS"] = Raw(<<"0">>)
    /\ config.read.reductions = DEFAULT_REDUCTIONS
    /\ env["NETPOLL_THREADS"] = Raw(<<"2", "5", "6">>)
    /\ config.read.netpoll_threads = DEFAULT_NETPOLL_THREADS
    /\ env["BACKUP_THREADS"] = Unset
    /\ config.read.backup_threads = 8

\* C23: after Config::from_env the number of netpoll threads is between 1
\* and 127: a value above 127 was clamped to 127 by verify, a value of at
\* most 127 is as it was read.
C23_NetpollThreadsClamped ==
    config.built =>
        /\ config.value.netpoll_threads \in 1..MAX_NETPOLL_THREADS
        /\ config.value.netpoll_threads =
               IF config.read.netpoll_threads > 127 THEN 127
               ELSE config.read.netpoll_threads
        /\ LET var == env["NETPOLL_THREADS"]
               n == Denoted(DigitsOf(var.raw))
           IN  Parsable(var, U8) =>
                   /\ n > 127 => config.value.netpoll_threads = 127
                   /\ n \in 1..127 => config.value.netpoll_threads = n

\* C23 witness: INKO_NETPOLL_THREADS was 200, from_env read 200 and the
\* Config holds 127.
C23_Witness ==
    /\ config.built
    /\ env["NETPOLL_THREADS"] = Raw(<<"2", "0", "0">>)
    /\ config.read.netpoll_threads = 200
    /\ config.value.netpoll_threads = 127

-----------------------------------------------------------------------------
(* Properties of DefineImportedTypes, under ImportsSpec.  An import is one *)
(* imported item: an import without a symbol list, or one symbol of the    *)
(* list; pass.log holds one entry for each, in the order the pass met them.*)

Imported == {pass.log[k] : k \in 1..Len(pass.log)}

ImportsModule(e) == e.name = IMPORT_MODULE_ITSELF_NAME

\* The name the import is to bind: the alias, or the last component of the
\* source module's path for an import of the module itself without alias.
BoundName(e) ==
    IF ImportsModule(e) /\ e.import_as = IMPORT_MODULE_ITSELF_NAME
    THEN ModuleName(e.source)[Len(ModuleName(e.source))]
    ELSE e.import_as

\* What the import is to bind the name to.
BoundSymbol(e) ==
    IF ImportsModule(e) THEN SymbolModule(e.source) ELSE e.before[e.source][e.name]

\* The ways an import can be invalid.
AlreadyDefined(e) == e.before[e.module][BoundName(e)] # NoSymbol
Undefined(e) == ~ImportsModule(e) /\ e.before[e.source][e.name] = NoSymbol
OnlyImported(e) ==
    /\ ~ImportsModule(e)
    /\ e.before[e.source][e.name] # NoSymbol
    /\ e.before[e.source][e.name].owner # e.source
PrivateSymbol(e) ==
    /\ ~ImportsModule(e)
    /\ e.before[e.source][e.name].private
    /\ e.before[e.source][e.name].owner # e.module
ValidImport(e) ==
    ~(AlreadyDefined(e) \/ Undefined(e) \/ OnlyImported(e) \/ PrivateSymbol(e))

\* C24: a valid import reports nothing and defines exactly one symbol in the
\* importing module: the last component of the source path (no symbol list,
\* or `self` without alias) or the alias (`self` with alias) bound to the
\* source module, or the alias of a named symbol (not its original name)
\* bound to that symbol of the source; run_all returns true when every
\* import is valid.
C24_ValidImportBindsImportedName ==
    pass.ran =>
        /\ \A e \in Imported :
               ValidImport(e) =>
                   /\ e.reported = << >>
                   /\ e.after =
                          [e.before EXCEPT ![e.module][BoundName(e)] = BoundSymbol(e)]
        /\ (\A e \in Imported : ValidImport(e)) => pass.result

\* C24 witness: module a imported module b under an alias and the class Foo
\* of b under another name; a holds the two names, neither "b" nor the
\* class's own name, and run_all returned true.
C24_Witness ==
    /\ pass.ran
    /\ pass.result
    /\ \E e \in Imported : e.module = "a" /\ e.name = "self" /\ e.import_as = "X"
    /\ \E e \in Imported : e.module = "a" /\ e.name = "Foo" /\ e.import_as = "Foo"
    /\ db["a"]["X"] = SymbolModule("b")
    /\ db["a"]["Foo"] = SymbolItem("class", "Foo", "b", FALSE)
    /\ db["a"]["b"] = NoSymbol

\* The location of the identifier that names what the import binds: the
\* alias, or the last component of the source path when there is no list.
AliasLocation(e) ==
    IF e.symbol = 0 THEN Loc(e.import, 0, Len(ModuleName(e.source)))
    ELSE Loc(e.import, e.symbol, "as")

NameLocation(e) == Loc(e.import, e.symbol, "name")

\* C25: an invalid import defines nothing (the first binding of a name stays)
\* and reports one error in the importing module's file: DuplicateSymbol at
\* the alias for a name already defined, InvalidSymbol at the symbol's name
\* for a symbol that is undefined, private or only imported by the source;
\* run_all returns false when an import is invalid.
C25_InvalidImportReportsOneError ==
    pass.ran =>
        /\ \A e \in Imported :
               ~ValidImport(e) =>
                   /\ e.after = e.before
                   /\ Len(e.reported) = 1
                   /\ e.reported[1].file = File(e.module)
                   /\ \/ /\ e.reported[1].id = "DuplicateSymbol"
                         /\ AlreadyDefined(e)
                         /\ e.reported[1].location = AliasLocation(e)
                      \/ /\ e.reported[1].id = "InvalidSymbol"
                         /\ Undefined(e) \/ OnlyImported(e) \/ PrivateSymbol(e)
                         /\ e.reported[1].location = NameLocation(e)
        /\ (\E e \in Imported : ~ValidImport(e)) => ~pass.result

\* C25 witness: module a imported Foo of b twice under the same alias and
\* then Foo of c, which c only imported: the second import reported
\* DuplicateSymbol at its alias, the third InvalidSymbol at its name, a still
\* holds the first binding, and run_all returned false.
C25_Witness ==
    /\ pass.ran
    /\ ~pass.result
    /\ db["a"]["X"] = SymbolItem("class", "Foo", "b", FALSE)
    /\ db["c"]["Foo"] = SymbolItem("class", "Foo", "b", FALSE)
    /\ diagnostics =
           << Diagnostic("InvalidSymbol", "a.inko", Loc(2, 1, "name")) >>
    /\ \E e \in Imported :
           /\ e.module = "a" /\ e.source = "c" /\ e.name = "Foo"
           /\ OnlyImported(e) /\ ~AlreadyDefined(e)

-----------------------------------------------------------------------------
(* Properties of MemoryMap::stack, under MemorySpec.                       *)

\* The mapping lies within the 2 * size bytes that mmap returned, and its
\* pages are the pages that are still mapped.
StackWithinAllocation ==
    memory.called =>
        /\ memory.map.len = memory.size
        /\ memory.mmap <= memory.map.ptr
        /\ memory.map.ptr + memory.map.len <= memory.mmap + 2 * memory.size
        /\ memory.mapped = PagesOf(memory.map.ptr, memory.map.len)

\* C26: for every size that is a multiple of the page size and every
\* page-aligned address mmap returns, MemoryMap::stack(size) yields a mapping
\* of len = size whose start is a multiple of size and whose range lies
\* within the 2 * size bytes allocated.
C26_StackAlignedToSize ==
    memory.called =>
        /\ memory.map.len = memory.size
        /\ memory.map.ptr % memory.size = 0
        /\ memory.mmap <= memory.map.ptr
        /\ memory.map.ptr + memory.map.len <= memory.mmap + 2 * memory.size

\* The sizes for which the start is aligned: the powers of two.
StackAlignedToPowerOfTwoSize ==
    (memory.called /\ \E k \in 0..AddressBits : memory.size = 2 ^ k) =>
        memory.map.ptr = AlignUpToMultiple(memory.mmap, memory.size)

\* The instruction a context's stored instruction_index points at.
StoredInstruction(context) ==
    Unit(context.code).instrs[context.instruction_index + 1]

\* Worker w re-executes the receive of process p.
ReExecutesReceive(w, p) == running[w] = p /\ ProcessReceiveMessage(w)

\* C28: a ProcessReceiveMessage that found the mailbox empty and the process
\* not waiting sets the waiting state, parks the process as its timeout
\* argument says (without timeout, or with the timeout on the suspension
\* list), stores in the current context an instruction_index that points at
\* the receive itself, and returns to the worker without queueing the process
\* and without writing a register; and as long as the process is in the
\* waiting state its contexts, the target register included, change only in
\* the step that executes the receive again.
C28_EmptyReceiveSuspends ==
    /\ [][\A w \in Workers :
              WaitForMessage(w) =>
                  LET p == running[w]
                      time_ptr == Top(ctxs[p]).register[Instr(p).a[2]]
                  IN  /\ ~waiting[p] /\ waiting'[p]
                      /\ parked'[p] \in OptionalTimeout(time_ptr)
                      /\ time_ptr = Nil => parked'[p] = "msg"
                      /\ Top(ctxs'[p]).instruction_index = index[p]
                      /\ StoredInstruction(Top(ctxs'[p])) = Instr(p)
                      /\ Instr(p).op = "ProcessReceiveMessage"
                      /\ Top(ctxs'[p]).register = Top(ctxs[p]).register
                      /\ Len(ctxs'[p]) = Len(ctxs[p])
                      /\ running'[w] = 0
                      /\ queue' = queue]_vars
    /\ [][\A p \in Procs :
              (waiting[p] /\ ~\E w \in Workers : ReExecutesReceive(w, p)) =>
                  ctxs'[p] = ctxs[p]]_vars

\* C28 witness: the last step was a receive of the main process that found
\* nothing and returned to the worker; the process waits with its timeout on
\* the suspension list, the stored index is that of the receive, and the
\* target register holds what it held before the receive.
C28_Witness ==
    /\ last.op = "ProcessReceiveMessage"
    /\ last.ctl = "release"
    /\ last.p = MainPid
    /\ waiting[MainPid]
    /\ parked[MainPid] = "msgT"
    /\ mailbox[MainPid] = << >>
    /\ \A w \in Workers : running[w] # MainPid
    /\ Top(ctxs[MainPid]).instruction_index = last.at
    /\ StoredInstruction(Top(ctxs[MainPid])).op = "ProcessReceiveMessage"
    /\ Top(ctxs[MainPid]).register[last.a[1]] = Top(last.stack).register[last.a[1]]
    /\ Top(last.stack).register[last.a[1]] # Nil

\* The catch table of the context at position i of the stack before the Throw.
TableAtThrow(i) == Unit(last.stack[i].code).catch_table

\* start < instruction_index <= end
Covers(entry, idx) == entry.start < idx /\ idx <= entry.end

\* Entry k of the context at position i is the one a throw has to choose: it
\* covers the index the throw finds stored there, no earlier entry of the
\* table does, and no context above position i has a covering entry.
ChosenAtThrow(i, k) ==
    /\ Covers(TableAtThrow(i)[k], StoredAtThrow(i))
    /\ \A j \in 1..(k - 1) : ~Covers(TableAtThrow(i)[j], StoredAtThrow(i))
    /\ \A h \in (i + 1)..Len(last.stack) :
           \A j \in 1..Len(TableAtThrow(h)) :
               ~Covers(TableAtThrow(h)[j], StoredAtThrow(h))

\* C29: a Throw searches the contexts from the current one outward and each
\* catch table in table order; the first entry with
\* start < instruction_index <= end (the index being the one after the Throw
\* in the throwing context and the one stored by the call in a calling
\* context) is chosen: every context above its context is popped, its context
\* stores the entry's jump_to, where execution continues, and holds the thrown
\* value in the entry's register, its other registers being as they were.
\* When no entry of any context covers, every context above the root is
\* popped and the throw fails.
C29_ThrowChoosesFirstCoveringEntry ==
    last.op = "Throw" =>
        /\ \A i \in 1..Len(last.stack) :
               \A k \in 1..Len(TableAtThrow(i)) :
                   ChosenAtThrow(i, k) =>
                       LET entry == TableAtThrow(i)[k]
                       IN  /\ last.ctl = "cont"
                           /\ Len(Now) = i
                           /\ Now[i].code = last.stack[i].code
                           /\ Now[i].instruction_index = entry.jump_to
                           /\ index[last.p] = entry.jump_to
                           /\ Now[i].register[entry.register] =
                                  Before.register[last.a[1]]
                           /\ \A r \in Regs \ {entry.register} :
                                  Now[i].register[r] = last.stack[i].register[r]
        /\ Catching = {} =>
               /\ last.ctl \in {"builtin", "handler"}
               /\ last.ctl = "builtin" =>
                      /\ Len(Now) = 1
                      /\ Now[1].code = last.stack[1].code
                      /\ Now[1].register = last.stack[1].register

\* C29 witness: a Throw was caught by the caller of the throwing context,
\* whose table has three entries: the first starts at the stored index and
\* does not cover it, the second and the third both cover it, and the second,
\* which ends at the stored index, was chosen.
C29_Witness ==
    /\ last.op = "Throw"
    /\ Len(last.stack) = 3
    /\ Len(Now) = 2
    /\ Len(TableAtThrow(2)) = 3
    /\ TableAtThrow(2)[1].start = StoredAtThrow(2)
    /\ TableAtThrow(2)[2].end = StoredAtThrow(2)
    /\ Covers(TableAtThrow(2)[3], StoredAtThrow(2))
    /\ ChosenAtThrow(2, 2)
    /\ TableAtThrow(1) # << >>
    /\ index[last.p] = TableAtThrow(2)[2].jump_to
    /\ index[last.p] # TableAtThrow(2)[3].jump_to
    /\ Top(Now).register[2] = Before.register[last.a[1]]
    /\ Top(Now).register[1] # Before.register[last.a[1]]

\* The deferred blocks the contexts of a stack hold, the root's first.
RECURSIVE HeldBy(_)
HeldBy(stack) ==
    IF stack = << >> THEN << >>
    ELSE HeldBy(SubSeq(stack, 1, Len(stack) - 1)) \o Top(stack).deferred_blocks

Occurrences(block, blocks) ==
    Cardinality({i \in 1..Len(blocks) : blocks[i] = block})

\* The same blocks, each as many times, in any order.
SameBlocks(s, t) ==
    /\ Len(s) = Len(t)
    /\ \A i \in 1..Len(s) : Occurrences(s[i], s) = Occurrences(s[i], t)

\* C30: a Throw neither loses nor duplicates a deferred block: caught or not,
\* the contexts left on the stack hold exactly the blocks, each as many times,
\* that the contexts of the stack held before the Throw; when no context
\* catches, the root context holds its own blocks, in their order, followed by
\* the blocks of every popped context.
C30_ThrowKeepsDeferredBlocks ==
    last.op = "Throw" =>
        /\ SameBlocks(HeldBy(Now), HeldBy(last.stack))
        /\ Catching = {} =>
               LET own == last.stack[1].deferred_blocks
                   root == Now[1].deferred_blocks
               IN  /\ Len(root) >= Len(own)
                   /\ SubSeq(root, 1, Len(own)) = own
                   /\ SameBlocks(SubSeq(root, Len(own) + 1, Len(root)),
                                 CarriedFrom(Len(last.stack), 1))
                   /\ \A i \in 2..Len(Now) : Now[i].deferred_blocks = << >>

\* C30 witness: a Throw two contexts above the root was not caught; the root
\* held a deferred block of its own and a popped context held another, and the
\* root now holds its own block followed by the other.
C30_Witness ==
    /\ last.op = "Throw"
    /\ Catching = {}
    /\ Len(last.stack) = 3
    /\ Len(last.stack[1].deferred_blocks) = 1
    /\ Len(last.stack[2].deferred_blocks) = 1
    /\ last.stack[1].deferred_blocks # last.stack[2].deferred_blocks
    /\ Now[1].deferred_blocks =
           last.stack[1].deferred_blocks \o last.stack[2].deferred_blocks

\* The handler Machine::panic takes for the process of the last step.
EffectiveHandler ==
    IF handler[last.p] # Undef THEN handler[last.p] ELSE defaultHandler

\* The position of the lowest handler context of a stack (0: none).
HandlerPosition(stack) ==
    LET at == {i \in 1..Len(stack) : stack[i].terminate_upon_return}
    IN  IF at = {} THEN 0 ELSE CHOOSE i \in at : \A j \in at : i <= j

\* The panic of the last step pushed the handler's context, marked
\* terminate_upon_return and holding the message in local 0, with one context
\* per pending deferred block on top of it and every queue emptied.
HandlerEntered ==
    /\ last.ctl = "handler"
    /\ \E h \in 1..Len(Now) :
           /\ Now[h].terminate_upon_return
           /\ Now[h].code = EffectiveHandler.s
           /\ Now[h].locals[0] = StrV(last.msg)
           /\ Now[h].instruction_index = 0
           /\ Len(Now) - h = Len(HeldBy(last.stack))
           /\ \A i \in (h + 1)..Len(Now) :
                  Now[i].deferred_of \in 1..h /\ Now[i].instruction_index = 0
    /\ \A i \in 1..Len(Now) : Now[i].deferred_blocks = << >>

\* The last step was taken with a handler context on the stack, and either
\* finished the process by the handler's Return or left the handler context
\* and the interrupted contexts below it in place, a context above the handler
\* leaving only by its own Return.
HandlerStaysUntilItReturns ==
    LET h == HandlerPosition(last.stack)
    IN  \/ /\ last.ctl = "finish"
           /\ last.op = "Return"
           /\ Len(last.stack) = h
           /\ life[last.p] = "finished"
        \/ /\ Len(Now) >= h
           /\ Now[h].terminate_upon_return
           /\ Now[h].code = last.stack[h].code
           /\ \A i \in 1..(h - 1) : SameContext(Now[i], last.stack[i])
           /\ Len(Now) < Len(last.stack) =>
                  last.op = "Return" /\ Len(Now) = Len(last.stack) - 1
           /\ Len(last.stack) = h => Len(Now) >= h

\* C31: a panic of a process with an effective handler (its own, else the
\* default) pushes the handler's context, marked terminate_upon_return, with
\* the message in local 0 and the pending deferred blocks of every context
\* scheduled on top of it; from then on every deferred block runs to its
\* Return before the handler's first instruction, no instruction of an
\* interrupted context is executed, and the handler's Return finishes the
\* process.
C31_HandlerRunsAfterDeferredBlocks ==
    /\ (Panicked /\ EffectiveHandler # Undef) => HandlerEntered
    /\ (HandlerRunning /\ last.op \notin {"init", "timeout", "gc", "dequeue"}) =>
           HandlerStaysUntilItReturns

\* The position of the context of a stack whose Exit is waiting for the
\* deferred blocks scheduled on top of it (0: none).
ExitingPosition(stack) ==
    LET at == {e \in 1..(Len(stack) - 1) :
                   /\ StoredInstruction(stack[e]).op = "Exit"
                   /\ stack[e + 1].deferred_of # 0}
    IN  IF at = {} THEN 0 ELSE CHOOSE e \in at : \A j \in at : e <= j

\* An Exit that finds deferred blocks in any context of the stack empties
\* every queue, puts one context per block on top of the stack and is rewound.
ExitSchedulesDeferredBlocks ==
    /\ last.ctl = "cont"
    /\ last.note = "rewind"
    /\ Len(Now) = Len(last.stack) + Len(HeldBy(last.stack))
    /\ \A i \in 1..Len(Now) : Now[i].deferred_blocks = << >>
    /\ \A i \in (Len(last.stack) + 1)..Len(Now) :
           Now[i].deferred_of \in 1..Len(last.stack)
    /\ Now[Len(last.stack)].instruction_index = last.at
    /\ StoredInstruction(Now[Len(last.stack)]).op = "Exit"

\* An Exit that terminates the VM: nothing is deferred, every deferred block
\* registered with a context of the stack has run to its Return, the status is
\* the given one and the pools are told to terminate.
ExitTerminates ==
    /\ HeldBy(last.stack) = << >>
    /\ \A i \in 1..Len(last.stack) : last.stack[i].owed = 0
    /\ exitStatus = Before.register[last.a[1]].n
    /\ terminated

\* A step taken while an Exit waits for its deferred blocks leaves the exiting
\* context and the contexts below it in place and does not end the process; a
\* context above the exiting one leaves only by its own Return.
ExitWaitsForDeferredBlocks ==
    LET e == ExitingPosition(last.stack)
    IN  /\ last.ctl \notin {"finish", "exit", "builtin", "handler"}
        /\ Len(Now) >= e
        /\ \A i \in 1..e : SameContext(Now[i], last.stack[i])
        /\ Len(Now) < Len(last.stack) =>
               last.op = "Return" /\ Len(Now) = Len(last.stack) - 1

\* C32: an Exit with a deferred block pending in any context of the chain
\* schedules them all and is rewound; the blocks run to their Returns before
\* the Exit is executed again; only an Exit that finds nothing pending sets
\* the exit status to the given value and tells the pools to terminate.
C32_ExitRunsDeferredBlocksFirst ==
    /\ (last.op = "Exit" /\ HeldBy(last.stack) # << >>) =>
           ExitSchedulesDeferredBlocks
    /\ (last.op = "Exit" /\ last.ctl = "exit") => ExitTerminates
    /\ (ExitingPosition(last.stack) # 0
        /\ last.op \notin {"init", "timeout", "gc", "dequeue"}) =>
           ExitWaitsForDeferredBlocks

\* The last step ended the interpreter loop of process last.p for good: the
\* PID is released, the final GC request is the newest request of the
\* process, and the pools are told to terminate if the process is the main
\* process.
Finished ==
    /\ last.ctl = "finish"
    /\ life[last.p] = "finished"
    /\ gcq[last.p] # << >>
    /\ gcq[last.p][Len(gcq[last.p])] = "finished"
    /\ \A w \in Workers : running[w] # last.p
    /\ last.p = MainPid => terminated

\* The last step was one of the three ways a process finishes.
FinishingStep ==
    \/ last.op = "ProcessTerminateCurrent"
    \/ /\ last.op = "Return"
       /\ Before.deferred_blocks = << >>
       /\ Before.terminate_upon_return \/ Len(last.stack) = 1

C34_FinishedProcessPinsNoWorker ==
    \A p \in Procs : life[p] \in {"finished", "unborn"} => pinned[p] = 0

\* C34 witness: a spawned process pinned itself to its worker and finished by
\* its Return, while the main process is alive.
C34_Witness ==
    /\ last.op = "Return"
    /\ last.p # MainPid
    /\ last.ctl = "finish"
    /\ Before.code = UPinChild
    /\ Before.register[0] = TrueV
    /\ life[last.p] = "finished"
    /\ pinned[last.p] = 0
    /\ life[MainPid] = "alive"
    /\ ~terminated

\* The pool register of the MoveToPool that worker w is about to execute.
PoolPointer(w) == Top(ctxs[running[w]]).register[Instr(running[w]).a[2]]

\* C35: MoveToPool executed by an unpinned process.  With a valid pool id
\* other than the current one the pool id is set, true is written to the
\* target register, the index of the next instruction is stored in the
\* context, the process is put in the queue of the new pool exactly once and
\* the worker lets go of it.  With the current pool id false is written and
\* the worker goes on with the next instruction, no queue changing.  With a
\* pool id that no pool has the step fails with "The process pool ID <id> is
\* invalid" and the pool id stays.
C35_MoveToPoolOfUnpinnedProcess ==
    [][\A w \in Workers :
           (MoveToPool(w) /\ pinned[running[w]] = 0 /\ IsU8(PoolPointer(w))) =>
               LET p == running[w]
                   id == PoolPointer(w).n
                   target == Instr(p).a[1]
               IN  /\ (id \in Pools /\ id # poolId[p]) =>
                          /\ poolId' = [poolId EXCEPT ![p] = id]
                          /\ Top(ctxs'[p]).register[target] = TrueV
                          /\ Top(ctxs'[p]).instruction_index = index[p] + 1
                          /\ queue' = [queue EXCEPT ![id][p] = queue[id][p] + 1]
                          /\ running'[w] = 0
                   /\ id = poolId[p] =>
                          /\ poolId' = poolId
                          /\ Top(ctxs'[p]).register[target] = FalseV
                          /\ queue' = queue
                          /\ running'[w] = p
                          /\ index'[p] = index[p] + 1
                   /\ id \notin Pools =>
                          /\ last'.msg =
                                 "The process pool ID " \o ToString(id) \o " is invalid"
                          /\ panics'[p] = panics[p] + 1
                          /\ poolId' = poolId
                          /\ queue' = queue]_vars

\* C35 witness: an unpinned process moved itself to the other pool and waits
\* in that pool's queue, true in its target register.
C35_Witness ==
    /\ last.op = "MoveToPool"
    /\ last.ctl = "moved"
    /\ pinned[last.p] = 0
    /\ poolId[last.p] = Before.register[last.a[2]].n
    /\ Top(Now).register[last.a[1]] = TrueV
    /\ queue[poolId[last.p]][last.p] = 1
    /\ \A w \in Workers : running[w] # last.p

\* The position, in the arguments of the call instruction `op`, of the number
\* of positional arguments; the number of keyword arguments follows it and
\* the argument registers follow that.
CountPosition(op) ==
    CASE op = "RunBlock" -> 3 [] op = "RunBlockWithReceiver" -> 4 [] OTHER -> 1

\* The last step was a call that passed the validation of its arguments.
ValidCall ==
    /\ last.op \in {"RunBlock", "RunBlockWithReceiver", "TailCall"}
    /\ last.note \in {"call", "tailcall"}

\* The keyword pairs of the last call whose name the callee maps to local l.
PairsNaming(l) ==
    LET at == CountPosition(last.op)
        first == at + 2 + last.a[at]
    IN  {j \in 1..last.a[at + 1] :
            ArgumentPosition(Top(Now).code,
                             Before.register[last.a[first + 2 * (j - 1)]]) = l}

\* C36: after a valid call the callee's locals 0..k-1 hold the first
\* k = min(given_positional, required + optional) argument values in order;
\* with a rest parameter and more positional arguments than k the others are
\* in a new array, in order, at the rest-argument local; every keyword pair
\* (name, value) that follows overwrites the local the callee maps the name
\* to, the last pair for a local deciding, and pairs with a name the callee
\* does not know change nothing.  All values are those of the caller's
\* registers before the call.
C36_CallSetsArguments ==
    ValidCall =>
        LET regs == Before.register
            at == CountPosition(last.op)
            given_positional == last.a[at]
            first == at + 2
            code == Unit(Top(Now).code)
            total == code.required + code.optional
            k == IF given_positional < total THEN given_positional ELSE total
            locals == Top(Now).locals
        IN  \A l \in Locals :
                LET named == PairsNaming(l)
                    j == CHOOSE i \in named : \A o \in named : o <= i
                IN  IF named # {}
                    THEN locals[l] =
                             regs[last.a[first + given_positional + 2 * (j - 1) + 1]]
                    ELSE IF l < k THEN locals[l] = regs[last.a[first + l]]
                    ELSE (code.rest /\ given_positional > k /\ l = total) =>
                             /\ locals[l].k = "arr"
                             /\ locals[l].n = given_positional - k
                             /\ \A i \in 1..(given_positional - k) :
                                    locals[l].m[i] = regs[last.a[first + k + i - 1]]

\* C36 witness: a callee with a rest parameter was called with two positional
\* arguments beyond its two parameters, the two packed in order.
C36_Witness ==
    /\ ValidCall
    /\ Unit(Top(Now).code).rest
    /\ Top(Now).locals[0] = IntV(10)
    /\ Top(Now).locals[1] = IntV(20)
    /\ Top(Now).locals[2] = ArrV(<< IntV(20), IntV(10) >>)

\* What the registry reports for the LoadModule that worker w is about to
\* execute.
Reported(w) ==
    ModuleLoad(module_registry,
               Top(ctxs[running[w]]).register[Instr(running[w]).a[2]])

\* C37: LoadModule pushes a new context for the module's top-level block,
\* with the instruction's target register as its return register, exactly
\* when the registry reports that the module needs executing; otherwise it
\* pushes nothing, writes nil to the target register and goes on with the
\* next instruction.  So no module's top-level block is executed more than
\* once, however often LoadModule names the module.
C37_LoadModuleExecutesOnce ==
    /\ [][\A w \in Workers :
              (LoadModule(w) /\ Reported(w).ok) =>
                  LET p == running[w]
                      target == Instr(p).a[1]
                  IN  IF Reported(w).execute
                      THEN /\ Len(ctxs'[p]) = Len(ctxs[p]) + 1
                           /\ Top(ctxs'[p]).code = Reported(w).block
                           /\ Top(ctxs'[p]).return_register = target
                           /\ Top(ctxs'[p]).instruction_index = 0
                           /\ index'[p] = 0
                           /\ ctxs'[p][Len(ctxs[p])].instruction_index = index[p] + 1
                      ELSE /\ ctxs'[p] = [ctxs[p] EXCEPT
                                             ![Len(ctxs[p])].register[target] = Nil]
                           /\ index'[p] = index[p] + 1
                           /\ running'[w] = p]_vars
    /\ [](\A m \in ModuleFiles : hist.executed[m] <= 1)

\* C37 witness: LoadModule named a module that was executed before; it wrote
\* nil and the module's top-level block has run only that once.
C37_Witness ==
    /\ last.op = "LoadModule"
    /\ last.note = "cached"
    /\ Before.register[last.a[2]] = StrV("a")
    /\ hist.executed["a"] = 1
    /\ Top(Now).register[last.a[1]] = Nil
    /\ Len(Now) = Len(last.stack)

\* The positions of the socket's log with operation op.
Entries(op) == {i \in 1..Len(socket.log) : socket.log[i].op = op}

\* C38: register on a socket that is not registered stores the calling
\* thread's poller id in `registered` before it calls that poller's add, and
\* on a registered socket it calls modify on the poller whose id is stored,
\* whichever poller the calling thread has.  So as long as there was no
\* deregister, the register calls added the socket to one poller, once.
C38_RegisterAddsOnce ==
    LET log == socket.log
    IN  /\ \A i \in Entries("add") :
               /\ log[i].id = socket.thread_poller_id[log[i].t]
               /\ log[i].was = log[i].id
               /\ i > 1
               /\ log[i - 1] = [op |-> "store", t |-> log[i].t, id |-> log[i].id,
                                was |-> NOT_REGISTERED]
        /\ \A i \in Entries("modify") :
               /\ log[i].was # NOT_REGISTERED
               /\ log[i].id = log[i].was
        /\ (Entries("delete") = {} /\ Entries("add") \cup Entries("modify") # {}) =>
               /\ Cardinality(Entries("add")) = 1
               /\ Cardinality({i \in DOMAIN socket.poll : socket.poll[i] # 0}) = 1
               /\ \A i \in DOMAIN socket.poll : socket.poll[i] <= 1

\* C38 witness: a thread registered the socket with its poller, and a thread
\* with another poller registered it again: modify on the first poller.
C38_Witness ==
    /\ Len(socket.log) = 3
    /\ socket.log[2].op = "add"
    /\ socket.log[3].op = "modify"
    /\ socket.log[3].t # socket.log[2].t
    /\ socket.thread_poller_id[socket.log[3].t] # socket.log[2].id
    /\ socket.log[3].id = socket.log[2].id
    /\ socket.poll[socket.log[2].id] = 1

\* C39: deregister calls delete on the poller whose id is stored in
\* `registered` and stores -1 after that; after a register and a deregister
\* the socket is not registered, with no poller, and the next register adds
\* it to the poller of the thread that calls then.
C39_DeregisterThenRegisterAdds ==
    LET log == socket.log
    IN  /\ \A i \in Entries("delete") :
               /\ log[i].was # NOT_REGISTERED
               /\ log[i].id = log[i].was
               /\ i < Len(log)
               /\ log[i + 1] = [op |-> "clear", t |-> log[i].t, id |-> NOT_REGISTERED,
                                was |-> log[i].was]
        /\ \A i \in Entries("clear") :
               /\ i > 1
               /\ log[i - 1].op = "delete"
               /\ log[i - 1].t = log[i].t
               /\ log[i].was = log[i - 1].was
               /\ i = Len(log) =>
                      /\ socket.registered = NOT_REGISTERED
                      /\ \A p \in DOMAIN socket.poll : socket.poll[p] = 0
               /\ (i < Len(log) /\ log[i + 1].op # "panic") =>
                      /\ log[i + 1].op = "store"
                      /\ log[i + 1].id = socket.thread_poller_id[log[i + 1].t]
               /\ i + 1 < Len(log) =>
                      log[i + 2] = [op |-> "add", t |-> log[i + 1].t,
                                    id |-> socket.thread_poller_id[log[i + 1].t],
                                    was |-> socket.thread_poller_id[log[i + 1].t]]

\* C39 witness: registered by one thread, deregistered and registered again
\* by a thread with another poller, which now has the socket.
C39_Witness ==
    /\ Len(socket.log) = 6
    /\ socket.log[2].op = "add"
    /\ socket.log[4].op = "clear"
    /\ socket.log[6].op = "add"
    /\ socket.log[6].t # socket.log[2].t
    /\ socket.log[6].id # socket.log[2].id
    /\ socket.poll[socket.log[6].id] = 1
    /\ socket.poll[socket.log[2].id] = 0

\* C40: `registered` is always -1 or the index of a network poller, an index
\* being at most 126, fitting an i8 and different from -1; and neither
\* register nor deregister indexes network_pollers out of range, deregister
\* of a socket that is not registered included.
C40_RegisteredIsAPollerIndex ==
    /\ socket.pollers <= MAX_NETPOLL_THREADS
    /\ \A i \in 0..(socket.pollers - 1) :
           AsI8(i) = i /\ AsI8(i) # NOT_REGISTERED /\ AsUsize(AsI8(i)) = i
    /\ socket.registered = NOT_REGISTERED \/ Indexes(socket, socket.registered)
    /\ ~socket.fault

\* The part of C40 that register and the value of `registered` have.
RegisterStaysInRange ==
    /\ socket.pollers <= MAX_NETPOLL_THREADS
    /\ socket.registered = NOT_REGISTERED \/ Indexes(socket, socket.registered)
    /\ \A i \in Entries("panic") :
           socket.log[i].was = NOT_REGISTERED /\ socket.log[i].id = 2 ^ UsizeBits - 1

====
